---- MODULE Spec2Model ----
(***************************************************************************)
(* A model of the flat-format (Bilara) loader of tipitaka-search:          *)
(* src/bilara_loader_dropin.py.  gather_segments is modelled as a state    *)
(* machine that walks the files and, within a file, the keys, in order;    *)
(* the helper functions it calls are operators over strings.               *)
(*                                                                         *)
(* Strings are sequences of one-character strings, so that split, prefix   *)
(* and suffix tests, int() and the regular expressions are computed and    *)
(* not assumed; a comment above a line reads the literals of the line as   *)
(* strings.  A letter outside ASCII is one element with a name, such as    *)
(* "a-macron".  Python's None is the value None (for strings) or NoneInt   *)
(* (for integers); no string and no integer of the loader equals them.     *)
(*                                                                         *)
(* Spec is gather_segments over every list of up to MaxFiles files of      *)
(* FilePool; SpecSeq is seq_from_section applied to two sections.          *)
(***************************************************************************)
EXTENDS Integers, Sequences, FiniteSets, TLC

(***************************************************************************)
(* Characters and strings                                                  *)
(***************************************************************************)
None == <<"None">>
NoneInt == -1

LowerChars == <<"a","b","c","d","e","f","g","h","i","j","k","l","m",
                "n","o","p","q","r","s","t","u","v","w","x","y","z">>
UpperChars == <<"A","B","C","D","E","F","G","H","I","J","K","L","M",
                "N","O","P","Q","R","S","T","U","V","W","X","Y","Z">>
DigitChars == <<"0","1","2","3","4","5","6","7","8","9">>

\* the characters of the model in code-point order (Python compares strings
\* by code point)
CodeOrder == <<" ", "-", ".", "/">> \o DigitChars \o <<":">> \o UpperChars
             \o <<"\\", "_">> \o LowerChars

Range(s) == {s[i] : i \in 1..Len(s)}

IsLower(c) == c \in Range(LowerChars)
IsUpper(c) == c \in Range(UpperChars)
IsDigit(c) == c \in Range(DigitChars)

PosIn(s, c) == CHOOSE i \in 1..Len(s) : s[i] = c

Ord(c) == PosIn(CodeOrder, c)

\* the letters with diacritics that the texts hold, capital and small
AccentUpper == <<"A-macron", "I-macron", "U-macron", "N-overdot", "N-tilde",
                 "T-underdot", "D-underdot", "N-underdot", "L-underdot",
                 "M-overdot">>
AccentLower == <<"a-macron", "i-macron", "u-macron", "n-overdot", "n-tilde",
                 "t-underdot", "d-underdot", "n-underdot", "l-underdot",
                 "m-overdot">>

\* str.lower() and str.upper(), one character
LowerChar(c) == IF IsUpper(c) THEN LowerChars[PosIn(UpperChars, c)]
                ELSE IF c \in Range(AccentUpper)
                THEN AccentLower[PosIn(AccentUpper, c)]
                ELSE c
UpperChar(c) == IF IsLower(c) THEN UpperChars[PosIn(LowerChars, c)] ELSE c
Lower(s) == [i \in 1..Len(s) |-> LowerChar(s[i])]
Upper(s) == [i \in 1..Len(s) |-> UpperChar(s[i])]

\* s[from:]
Drop(s, n) == SubSeq(s, n + 1, Len(s))
Take(s, n) == SubSeq(s, 1, n)

StartsWith(s, p) == Len(p) <= Len(s) /\ Take(s, Len(p)) = p
EndsWith(s, p) == Len(p) <= Len(s) /\ Drop(s, Len(s) - Len(p)) = p

\* p in s, for strings
Contains(s, p) ==
    \E i \in 0..(Len(s) - Len(p)) : SubSeq(s, i + 1, i + Len(p)) = p

\* s < t as Python compares strings
RECURSIVE StrLess(_, _)
StrLess(s, t) ==
    IF t = <<>> THEN FALSE
    ELSE IF s = <<>> THEN TRUE
    ELSE IF s[1] = t[1] THEN StrLess(Tail(s), Tail(t))
    ELSE Ord(s[1]) < Ord(t[1])

\* s.split(sep), sep one character
RECURSIVE SplitFrom(_, _, _)
SplitFrom(s, sep, cur) ==
    IF s = <<>> THEN <<cur>>
    ELSE IF s[1] = sep THEN <<cur>> \o SplitFrom(Tail(s), sep, <<>>)
    ELSE SplitFrom(Tail(s), sep, Append(cur, s[1]))

Split(s, sep) == SplitFrom(s, sep, <<>>)

\* s.replace(a, b), a and b one character
Replace(s, a, b) == [i \in 1..Len(s) |-> IF s[i] = a THEN b ELSE s[i]]

\* the length of the longest prefix of s whose characters are in the class
RECURSIVE SpanLen(_, _)
SpanLen(s, class) ==
    IF s # <<>> /\ s[1] \in class THEN 1 + SpanLen(Tail(s), class) ELSE 0

AllDigits(s) == \A i \in 1..Len(s) : IsDigit(s[i])

RECURSIVE DigitsValue(_)
DigitsValue(s) ==
    IF s = <<>> THEN 0
    ELSE 10 * DigitsValue(Take(s, Len(s) - 1)) + (PosIn(DigitChars, s[Len(s)]) - 1)

\* int(x) on the characters a key can hold: an optional sign, then digits;
\* anything else raises ValueError
IntParses(x) ==
    \/ x # <<>> /\ AllDigits(x)
    \/ Len(x) >= 2 /\ x[1] = "-" /\ AllDigits(Tail(x))

IntValue(x) == IF x[1] = "-" THEN 0 - DigitsValue(Tail(x)) ELSE DigitsValue(x)

\* the character classes of the regular expressions
Lowers == Range(LowerChars)
Digits == Range(DigitChars)
WorkLetters == Lowers \cup {"-"}
NumDots == Digits \cup {"."}
SectionChars == Digits \cup Lowers \cup {".", "-"}

(***************************************************************************)
(* Constants of the loader                                                 *)
(***************************************************************************)
\* 'kp', 'dhp', 'ud', 'iti', 'snp', 'vv', 'pv'
KN_PREFIXES == {<<"k","p">>, <<"d","h","p">>, <<"u","d">>, <<"i","t","i">>, <<"s","n","p">>, <<"v","v">>, <<"p","v">>,
                \* 'thag', 'thig', 'ja', 'ap', 'bv'
                <<"t","h","a","g">>, <<"t","h","i","g">>, <<"j","a">>, <<"a","p">>, <<"b","v">>}

\* 'snp', 'thag', 'thig', 'vv', 'pv', 'dhp'
VERSE_Y_WORK_PREFIX == {<<"s","n","p">>, <<"t","h","a","g">>, <<"t","h","i","g">>, <<"v","v">>, <<"p","v">>, <<"d","h","p">>}

\* 'DN', 'MN', 'SN', 'AN'
NIKAYA_SCHEMES == {<<"D","N">>, <<"M","N">>, <<"S","N">>, <<"A","N">>}

\* 'dhs', 'vibh', 'kvu', 'pug', 'yam', 'yp'
ABH_PREFIXES == {<<"d","h","s">>, <<"v","i","b","h">>, <<"k","v","u">>, <<"p","u","g">>, <<"y","a","m">>, <<"y","p">>,
                 \* 'patthana', 'abh'
                 <<"p","a","t","t","h","a","n","a">>, <<"a","b","h">>}

\* 'vagga', 'chapter', 'nipāta', 'saṁyutta', 'saṃyutta'
VAGGA_WORDS == {<<"v","a","g","g","a">>, <<"c","h","a","p","t","e","r">>, <<"n","i","p","a-macron","t","a">>, <<"s","a","m-overdot","y","u","t","t","a">>, <<"s","a","m-underdot","y","u","t","t","a">>,
                \* 'paññāsa', 'paṇṇāsa'
                <<"p","a","n-tilde","n-tilde","a-macron","s","a">>, <<"p","a","n-underdot","n-underdot","a-macron","s","a">>}

\* '0.2', '0.3', '0.4'
VAGGA_SLOTS == <<<<"0",".","2">>, <<"0",".","3">>, <<"0",".","4">>>>

\* coeff = [1000000, 1000, 10, 1]
coeff == <<1000000, 1000, 10, 1>>

(***************************************************************************)
(* The regular expressions                                                 *)
(***************************************************************************)
\* [a-z\-]+[\d\.]+ at the start of s: the length matched, 0 when no match.
\* The two classes are disjoint, so the greedy match is the only one.
WorkIdSpan(s, letters) ==
    LET n == SpanLen(s, letters)
        m == SpanLen(Drop(s, n), NumDots)
    IN  IF n >= 1 /\ m >= 1 THEN n + m ELSE 0

\* a variant: every key that is not empty is taken for a segment key
SegKeyMatches_any(seg_id) == seg_id # <<>>

\* SEG_KEY_RE = ^([a-z\-]+[\d\.]+):([0-9][0-9a-z\.\-]*)$
SegKeyMatches(seg_id) ==
    LET w == WorkIdSpan(seg_id, WorkLetters)
        rest == Drop(seg_id, w + 1)
    IN  /\ w >= 1
        /\ Len(seg_id) >= w + 2
        /\ seg_id[w + 1] = ":"
        /\ IsDigit(rest[1])
        /\ \A i \in 1..Len(rest) : rest[i] \in SectionChars

SegKeyWork(seg_id) == Take(seg_id, WorkIdSpan(seg_id, WorkLetters))
SegKeySection(seg_id) == Drop(seg_id, WorkIdSpan(seg_id, WorkLetters) + 1)

\* FILENAME_WORK_RE.search(s), FILENAME_WORK_RE = ([a-z\-]+[\d\.]+)_? with
\* re.I: group 1 of the leftmost match, None when there is none
RECURSIVE FilenameWorkSearch(_)
FilenameWorkSearch(s) ==
    IF s = <<>> THEN None
    ELSE LET w == WorkIdSpan(s, WorkLetters \cup Range(UpperChars))
         IN  IF w >= 1 THEN Take(s, w) ELSE FilenameWorkSearch(Tail(s))

(***************************************************************************)
(* The helper functions                                                    *)
(***************************************************************************)
IndexOf(parts, x) == CHOOSE i \in 1..Len(parts) :
                        parts[i] = x /\ \A j \in 1..(i - 1) : parts[j] # x

infer_variant_from_path(path) ==
    LET parts == Split(Replace(path, "\\", "/"), "/")
    \* 'root'
    IN  IF <<"r","o","o","t">> \in Range(parts)
        \* 'root', 'pli'
        THEN [layer |-> <<"r","o","o","t">>, lang |-> <<"p","l","i">>, translator |-> None]
        \* 'translation'
        ELSE IF <<"t","r","a","n","s","l","a","t","i","o","n">> \in Range(parts)
        \* 'translation'
        THEN LET i == IndexOf(parts, <<"t","r","a","n","s","l","a","t","i","o","n">>)
             \* 'translation'
             IN  [layer |-> <<"t","r","a","n","s","l","a","t","i","o","n">>,
                  lang |-> IF i + 1 <= Len(parts) THEN parts[i + 1] ELSE None,
                  translator |-> IF i + 2 <= Len(parts) THEN parts[i + 2] ELSE None]
        \* 'unknown'
        ELSE [layer |-> <<"u","n","k","n","o","w","n">>, lang |-> None, translator |-> None]

\* utils/bilara_load.py: the same, but a path that ends before the
\* translator component raises IndexError and gives no lang either
infer_variant_from_path_legacy(path) ==
    LET parts == Split(Replace(path, "\\", "/"), "/")
    \* 'root'
    IN  IF <<"r","o","o","t">> \in Range(parts)
        \* 'root', 'pli'
        THEN [layer |-> <<"r","o","o","t">>, lang |-> <<"p","l","i">>, translator |-> None]
        \* 'translation'
        ELSE IF <<"t","r","a","n","s","l","a","t","i","o","n">> \in Range(parts)
        \* 'translation'
        THEN LET i == IndexOf(parts, <<"t","r","a","n","s","l","a","t","i","o","n">>)
             IN  IF i + 2 <= Len(parts)
                 \* 'translation'
                 THEN [layer |-> <<"t","r","a","n","s","l","a","t","i","o","n">>, lang |-> parts[i + 1],
                       translator |-> parts[i + 2]]
                 \* 'translation'
                 ELSE [layer |-> <<"t","r","a","n","s","l","a","t","i","o","n">>, lang |-> None,
                       translator |-> None]
        \* 'unknown'
        ELSE [layer |-> <<"u","n","k","n","o","w","n">>, lang |-> None, translator |-> None]

\* os.path.basename
basename(path) == LET parts == Split(path, "/") IN parts[Len(parts)]

parse_work_id_from_filename(filename) ==
    FilenameWorkSearch(Lower(basename(filename)))

\* SPLIT_SCHEME_RE = ^([a-z\-]+?)([\d\.]+)$ with re.I, on (work_id or "")
split_scheme_and_number(work_id) ==
    LET n == SpanLen(work_id, WorkLetters \cup Range(UpperChars))
        num == Drop(work_id, n)
    IN  IF n >= 1 /\ num # <<>> /\ \A i \in 1..Len(num) : num[i] \in NumDots
        THEN [scheme |-> Upper(Take(work_id, n)), work_number |-> num]
        ELSE [scheme |-> None, work_number |-> None]

RECURSIVE SumParts(_, _)
SumParts(parts, i) ==
    IF i > Len(parts) \/ i > Len(coeff) THEN 0
    ELSE IntValue(parts[i]) * coeff[i] + SumParts(parts, i + 1)

\* a variant: the three-level packing a*10000 + b*100 + c
seq_from_section_3level(section) ==
    LET parts == Split(section, ".")
        p(i) == IF i <= Len(parts) THEN IntValue(parts[i]) ELSE 0
    IN  IF \A i \in 1..Len(parts) : IntParses(parts[i])
        THEN p(1) * 10000 + p(2) * 100 + p(3)
        ELSE 0

seq_from_section(section) ==
    LET parts == Split(section, ".")
    IN  IF \A i \in 1..Len(parts) : IntParses(parts[i])
        THEN SumParts(parts, 1)
        ELSE 0

\* re.match(r"([a-z]+)", wid).group(1), "" when there is no match
AlphaPrefix(wid) == Take(wid, SpanLen(wid, Lowers))

OrEmpty(s) == IF s = None THEN <<>> ELSE s

infer_basket_collection_from_work(work_id, scheme_) ==
    LET wid == Lower(OrEmpty(work_id))
        scm == Upper(OrEmpty(scheme_))
        prefix == AlphaPrefix(wid)
    IN  IF scm \in NIKAYA_SCHEMES
        \* 'sutta'
        THEN [basket |-> <<"s","u","t","t","a">>, collection |-> scm]
        \* 'KN'
        ELSE IF prefix \in KN_PREFIXES \/ scm = <<"K","N">>
        \* 'sutta', 'KN'
        THEN [basket |-> <<"s","u","t","t","a">>, collection |-> <<"K","N">>]
        \* 'pli-tv-', 'PLI-TV'
        ELSE IF StartsWith(wid, <<"p","l","i","-","t","v","-">>) \/ StartsWith(scm, <<"P","L","I","-","T","V">>)
        \* 'vinaya', 'VIN'
        THEN [basket |-> <<"v","i","n","a","y","a">>, collection |-> <<"V","I","N">>]
        \* 'ABH'
        ELSE IF prefix \in ABH_PREFIXES \/ scm = <<"A","B","H">>
        \* 'abhidhamma', 'ABH'
        THEN [basket |-> <<"a","b","h","i","d","h","a","m","m","a">>, collection |-> <<"A","B","H">>]
        ELSE [basket |-> None, collection |-> None]

\* re.match(r"pli-tv-([a-z]+)(\d+)", wid)
parse_division_chapter(work_id) ==
    LET wid == Lower(OrEmpty(work_id))
        \* 'pli-tv-'
        rest == Drop(wid, Len(<<"p","l","i","-","t","v","-">>))
        n == SpanLen(rest, Lowers)
        m == SpanLen(Drop(rest, n), Digits)
    \* 'pli-tv-'
    IN  IF StartsWith(wid, <<"p","l","i","-","t","v","-">>) /\ n >= 1 /\ m >= 1
        THEN [division_code |-> Upper(Take(rest, n)),
              division_num |-> DigitsValue(SubSeq(rest, n + 1, n + m))]
        ELSE [division_code |-> None, division_num |-> NoneInt]

\* '0.'
is_title_section(section) == StartsWith(section, <<"0",".">>)

\* a variant: the title test is left out
\* '.1'
is_gatha_boundary_any(section) == EndsWith(section, <<".","1">>)

is_gatha_boundary(section) ==
    \* '.1'
    (~ is_title_section(section)) /\ EndsWith(section, <<".","1">>)

\* ^(p1|p2|...)[\d\.]+$ : the letters before the first digit or dot are one
\* of the prefixes, and digits and dots follow to the end
PrefixThenNumDots(wid, prefixes) ==
    LET n == SpanLen(wid, Lowers)
        num == Drop(wid, n)
    IN  /\ Take(wid, n) \in prefixes
        /\ num # <<>>
        /\ \A i \in 1..Len(num) : num[i] \in NumDots

base_sutta_id(work_id) ==
    LET wid == Lower(OrEmpty(work_id))
    \* 'mn', 'dn', 'sn', 'an'
    IN  IF PrefixThenNumDots(wid, {<<"m","n">>, <<"d","n">>, <<"s","n">>, <<"a","n">>}) THEN wid
        ELSE IF PrefixThenNumDots(wid, KN_PREFIXES) THEN wid
        ELSE None

\* the digits s ends with
RECURSIVE TrailingDigits(_)
TrailingDigits(s) ==
    IF s # <<>> /\ IsDigit(s[Len(s)])
    THEN Append(TrailingDigits(Take(s, Len(s) - 1)), s[Len(s)])
    ELSE <<>>

\* lines 151-161: re.search(r"(\d+(?:\.\d+)*)$", sutta_id), then the int of
\* the last dotted component of the match
sutta_num_of(sutta_id) ==
    IF sutta_id # None /\ TrailingDigits(sutta_id) # <<>>
    THEN DigitsValue(TrailingDigits(sutta_id))
    ELSE NoneInt

(***************************************************************************)
(* Input: the files handed to gather_segments.  A file is its path and     *)
(* the (key, text) pairs of its JSON object, in the order of the file; the *)
(* keys of one file are distinct.                                          *)
(***************************************************************************)
KV(k, t) == [key |-> k, text |-> t]

RootMn10 ==
    \* 'root/pli/ms/mn10_root-pli-ms.json'
    [path |-> <<"r","o","o","t","/","p","l","i","/","m","s","/","m","n","1","0","_","r","o","o","t","-","p","l","i","-","m","s",".","j","s","o","n">>,
     \* 'mn10:0.1', 'MN 10'
     data |-> << KV(<<"m","n","1","0",":","0",".","1">>, <<"M","N"," ","1","0">>),
                 \* 'mn10:1.1', 'Thus I have heard.'
                 KV(<<"m","n","1","0",":","1",".","1">>, <<"T","h","u","s"," ","I"," ","h","a","v","e"," ","h","e","a","r","d",".">>) >>]

TransMn10 ==
    \* 'translation/en/sujato/mn10_translation-en-sujato.json'
    [path |-> <<"t","r","a","n","s","l","a","t","i","o","n","/","e","n","/","s","u","j","a","t","o","/","m","n","1","0","_","t","r","a","n","s","l","a","t","i","o","n","-","e","n","-","s","u","j","a","t","o",".","j","s","o","n">>,
     \* 'mn10:1.1', 'Should be discourse'
     data |-> << KV(<<"m","n","1","0",":","1",".","1">>, <<"S","h","o","u","l","d"," ","b","e"," ","d","i","s","c","o","u","r","s","e">>) >>]

TransMn10De ==
    \* 'translation/de/sabbamitta/mn10_translation-de-sabbamitta.json'
    [path |-> <<"t","r","a","n","s","l","a","t","i","o","n","/","d","e","/","s","a","b","b","a","m","i","t","t","a","/","m","n","1","0","_","t","r","a","n","s","l","a","t","i","o","n","-","d","e","-","s","a","b","b","a","m","i","t","t","a",".","j","s","o","n">>,
     \* 'mn10:0.1'
     data |-> << KV(<<"m","n","1","0",":","0",".","1">>, <<>>),
                 \* 'mn10:1.1', 'Rede'
                 KV(<<"m","n","1","0",":","1",".","1">>, <<"R","e","d","e">>),
                 \* 'mn10:1.2', 'Zwei'
                 KV(<<"m","n","1","0",":","1",".","2">>, <<"Z","w","e","i">>) >>]

RootThag ==
    \* 'root/pli/ms/thag1.1_root-pli-ms.json'
    [path |-> <<"r","o","o","t","/","p","l","i","/","m","s","/","t","h","a","g","1",".","1","_","r","o","o","t","-","p","l","i","-","m","s",".","j","s","o","n">>,
     \* 'thag1.1:1.1', 'thag1.1:1.2'
     data |-> << KV(<<"t","h","a","g","1",".","1",":","1",".","1">>, <<"a">>), KV(<<"t","h","a","g","1",".","1",":","1",".","2">>, <<"b">>),
                 \* 'thag1.1:2.1', 'thag1.1:2.2'
                 KV(<<"t","h","a","g","1",".","1",":","2",".","1">>, <<"c">>), KV(<<"t","h","a","g","1",".","1",":","2",".","2">>, <<"d">>),
                 \* 'thag1.1:2.3'
                 KV(<<"t","h","a","g","1",".","1",":","2",".","3">>, <<"e">>) >>]

RootDhp ==
    \* 'root/pli/ms/dhp1_root-pli-ms.json'
    [path |-> <<"r","o","o","t","/","p","l","i","/","m","s","/","d","h","p","1","_","r","o","o","t","-","p","l","i","-","m","s",".","j","s","o","n">>,
     \* 'dhp1:0.1', 'Dhammapada'
     data |-> << KV(<<"d","h","p","1",":","0",".","1">>, <<"D","h","a","m","m","a","p","a","d","a">>),
                 \* 'dhp1:0.2', ' Yamakavagga '
                 KV(<<"d","h","p","1",":","0",".","2">>, <<" ","Y","a","m","a","k","a","v","a","g","g","a"," ">>),
                 \* 'comment'
                 KV(<<"c","o","m","m","e","n","t">>, <<"x">>),
                 \* 'dhp1:1', 'Mano'
                 KV(<<"d","h","p","1",":","1">>, <<"M","a","n","o">>) >>]

\* a second root-layer file of mn10, with an empty text
RootMn10Blank ==
    \* 'root/pli/alt/mn10_root-pli-alt.json'
    [path |-> <<"r","o","o","t","/","p","l","i","/","a","l","t","/","m","n","1","0","_","r","o","o","t","-","p","l","i","-","a","l","t",".","j","s","o","n">>,
     \* 'mn10:1.1'
     data |-> << KV(<<"m","n","1","0",":","1",".","1">>, <<>>) >>]

\* a file named "translation": no language and no translator in its path
BareTrans ==
    \* 'translation'
    [path |-> <<"t","r","a","n","s","l","a","t","i","o","n">>,
     \* 'mn10:1.1', 'Bare'
     data |-> << KV(<<"m","n","1","0",":","1",".","1">>, <<"B","a","r","e">>) >>]

\* a file outside the root and translation trees, holding several works
Mixed ==
    \* 'misc/sn1.1.json'
    [path |-> <<"m","i","s","c","/","s","n","1",".","1",".","j","s","o","n">>,
     \* 'dhp.1:0.1'
     data |-> << KV(<<"d","h","p",".","1",":","0",".","1">>, <<"T">>),
                 \* 'sn1.1:1.1.1'
                 KV(<<"s","n","1",".","1",":","1",".","1",".","1">>, <<"s">>),
                 \* 'pli-tv-kd10:2.1'
                 KV(<<"p","l","i","-","t","v","-","k","d","1","0",":","2",".","1">>, <<"v">>) >>]

\* a file named after mn10 that holds a key of another work before its own
Preceded ==
    \* 'misc/mn10_notes.json'
    [path |-> <<"m","i","s","c","/","m","n","1","0","_","n","o","t","e","s",".","j","s","o","n">>,
     \* 'dn1:1.1', 'mn10:1.1'
     data |-> << KV(<<"d","n","1",":","1",".","1">>, <<"d">>), KV(<<"m","n","1","0",":","1",".","1">>, <<"m">>) >>]

FilePool == {RootMn10, TransMn10, TransMn10De, RootThag, RootDhp,
             RootMn10Blank, BareTrans, Mixed, Preceded}

MaxFiles == 2

FileLists == UNION {[1..n -> FilePool] : n \in 0..MaxFiles}

(***************************************************************************)
(* State of gather_segments                                                *)
(***************************************************************************)
VARIABLES
    files,          \* filepaths, with the content load_json returns for each
    pc,             \* "files", "keys", "done"
    fi,             \* the file the outer loop is at, 1..Len(files)+1
    ki,             \* the key the inner loop is at, 1..Len(data)+1
    layer, lang, translator,    \* of the current file
    fname_work_id,  \* of the current file
    scheme, work_number,        \* set per file, and reset by some keys
    segments,       \* seg_id -> doc
    work_context,   \* key_work_id -> ctx
    op, arg, res,   \* a call of a pure function: its state, input and result
    xfile,          \* docs_from_file: the parsed file
    xpc,            \* docs_from_file: "none", "start", "leaves", "done"
    basket, collection,     \* docs_from_file: set per file, kept across leaves
    todo,           \* docs_from_file: the leaves still to be iterated
    docs,           \* docs_from_file: the docs so far
    globbed,        \* parallel_index: the parsed files the globs yield
    bpc,            \* parallel_index: "none", "ready", "running", "ended"
    run,            \* the number of the run of parallel_index, from 1
    stream,         \* the actions action_stream yields in this run
    taken,          \* how many of them parallel_bulk has handed to threads
    inflight,       \* thread -> the actions of its chunk not yet answered
    store,          \* the index: its records in the order of creation
    failed          \* run -> the tally of failed actions

vars == <<files, pc, fi, ki, layer, lang, translator, fname_work_id, scheme,
          work_number, segments, work_context, op, arg, res,
          xfile, xpc, basket, collection, todo, docs,
          globbed, bpc, run, stream, taken, inflight, store, failed>>

fileVars == <<layer, lang, translator, fname_work_id>>
callVars == <<op, arg, res>>
docsVars == <<xfile, xpc, basket, collection, todo, docs>>
bulkVars == <<globbed, bpc, run, stream, taken, inflight, store, failed>>

\* docs_from_file is not running
IdleDocs ==
    /\ xfile = <<>>
    /\ xpc = "none"
    /\ basket = None /\ collection = None
    /\ todo = {}
    /\ docs = <<>>

\* parallel_index is not running
IdleBulk ==
    /\ globbed = <<>>
    /\ bpc = "none"
    /\ run = 0
    /\ stream = <<>>
    /\ taken = 0
    /\ inflight = <<>>
    /\ store = <<>>
    /\ failed = <<>>

Truthy(s) == s # None /\ s # <<>>

Put(f, k, v) == [x \in DOMAIN f \cup {k} |-> IF x = k THEN v ELSE f[x]]

\* the strings of S, sorted as Python sorts strings
RECURSIVE SortedSeq(_)
SortedSeq(S) ==
    IF S = {} THEN <<>>
    ELSE LET m == CHOOSE x \in S : \A y \in S \ {x} : StrLess(x, y)
         IN  <<m>> \o SortedSeq(S \ {m})

\* s.strip(), the whitespace of the model being the space
RECURSIVE Strip(_)
Strip(s) ==
    IF s # <<>> /\ s[1] = " " THEN Strip(Tail(s))
    ELSE IF s # <<>> /\ s[Len(s)] = " " THEN Strip(Take(s, Len(s) - 1))
    ELSE s

CurData == files[fi].data

\* lines 141-167: what one iteration computes from the key before it
\* touches the shared state
RawSegment(seg_id, text) ==
    LET key_work_id == SegKeyWork(seg_id)
        section == SegKeySection(seg_id)
        sch == IF Truthy(fname_work_id) /\ key_work_id # fname_work_id
               THEN split_scheme_and_number(key_work_id)
               ELSE [scheme |-> scheme, work_number |-> work_number]
        bc == infer_basket_collection_from_work(key_work_id, sch.scheme)
        sutta_id == base_sutta_id(key_work_id)
        dc == parse_division_chapter(key_work_id)
    IN  [seg_id |-> seg_id, text |-> text,
         key_work_id |-> key_work_id, section |-> section,
         scheme |-> sch.scheme, work_number |-> sch.work_number,
         basket |-> bc.basket, collection |-> bc.collection,
         sutta_id |-> sutta_id, sutta_num |-> sutta_num_of(sutta_id),
         division_code |-> dc.division_code, division_num |-> dc.division_num,
         title_flag |-> is_title_section(section),
         seq |-> seq_from_section(section)]

\* lines 170-176: the context a work starts with
likely_verse_of(key_work_id) ==
    Split(OrEmpty(base_sutta_id(key_work_id)), ".")[1] \in VERSE_Y_WORK_PREFIX

new_context(key_work_id) ==
    [last_titles |-> <<>>,
     gatha_no |-> 0,
     gatha_line |-> 0,
     last_boundary_seen |-> FALSE,
     likely_verse |-> likely_verse_of(key_work_id)]

\* a variant: a title slot keeps the first text it was given
track_titles_keep_first(ctx, raw) ==
    IF raw.title_flag /\ raw.section \notin DOMAIN ctx.last_titles
    THEN [ctx EXCEPT !.last_titles = Put(@, raw.section, raw.text)]
    ELSE ctx

\* lines 178-180
track_titles(ctx, raw) ==
    IF raw.title_flag
    THEN [ctx EXCEPT !.last_titles = Put(@, raw.section, raw.text)]
    ELSE ctx

\* a variant: a boundary does not restart the line count
track_gatha_no_reset(ctx, raw) ==
    IF is_gatha_boundary(raw.section)
    THEN [ctx EXCEPT !.gatha_no = @ + 1, !.gatha_line = @ + 1]
    ELSE IF ctx.gatha_no > 0 /\ ~ raw.title_flag
    THEN [ctx EXCEPT !.gatha_line = @ + 1]
    ELSE ctx

\* a variant: a title section restarts the counters of its work
track_gatha_title_restarts(ctx, raw) ==
    IF is_gatha_boundary(raw.section)
    THEN [ctx EXCEPT !.gatha_no = @ + 1, !.gatha_line = 1]
    ELSE IF raw.title_flag
    THEN [ctx EXCEPT !.gatha_no = 0, !.gatha_line = 0]
    ELSE IF ctx.gatha_no > 0
    THEN [ctx EXCEPT !.gatha_line = @ + 1]
    ELSE ctx

\* lines 182-188
track_gatha(ctx, raw) ==
    IF is_gatha_boundary(raw.section)
    THEN [ctx EXCEPT !.gatha_no = @ + 1, !.gatha_line = 1]
    ELSE IF ctx.gatha_no > 0 /\ ~ raw.title_flag
    THEN [ctx EXCEPT !.gatha_line = @ + 1]
    ELSE ctx

\* lines 220 and 241: the titles seen so far for the work, sorted by section
titles_snapshot(ctx) ==
    LET ks == SortedSeq(DOMAIN ctx.last_titles)
    IN  [i \in 1..Len(ks) |-> [section |-> ks[i], text |-> ctx.last_titles[ks[i]]]]

verse_no(ctx) == IF ctx.gatha_no > 0 THEN ctx.gatha_no ELSE NoneInt
verse_line(ctx) == IF ctx.gatha_no > 0 THEN ctx.gatha_line ELSE NoneInt

\* a variant: the first text seen becomes the primary text, whatever its layer
new_doc_first_text(raw, ctx) ==
    [segment_id |-> raw.seg_id,
     segment_num |-> raw.section,
     seq |-> raw.seq,
     is_title |-> raw.title_flag,
     basket |-> raw.basket,
     collection |-> raw.collection,
     sutta |-> raw.sutta_id,
     sutta_num |-> raw.sutta_num,
     vagga |-> None,
     division_code |-> raw.division_code,
     division_num |-> raw.division_num,
     \* 'translation'
     translator |-> IF layer = <<"t","r","a","n","s","l","a","t","i","o","n">> THEN translator ELSE None,
     lang |-> IF layer # None THEN lang ELSE None,
     text |-> raw.text,
     is_gatha |-> (ctx.gatha_no > 0) \/ ctx.likely_verse,
     gatha_no |-> verse_no(ctx),
     gatha_line |-> verse_line(ctx),
     titles |-> titles_snapshot(ctx),
     variants |-> <<>>]

\* lines 193-224: the doc of a segment id seen for the first time
new_doc(raw, ctx) ==
    [segment_id |-> raw.seg_id,
     segment_num |-> raw.section,
     seq |-> raw.seq,
     is_title |-> raw.title_flag,
     basket |-> raw.basket,
     collection |-> raw.collection,
     sutta |-> raw.sutta_id,
     sutta_num |-> raw.sutta_num,
     vagga |-> None,
     division_code |-> raw.division_code,
     division_num |-> raw.division_num,
     \* 'translation'
     translator |-> IF layer = <<"t","r","a","n","s","l","a","t","i","o","n">> THEN translator ELSE None,
     lang |-> IF layer # None THEN lang ELSE None,
     \* 'translation'
     text |-> IF layer = <<"t","r","a","n","s","l","a","t","i","o","n">> THEN raw.text ELSE None,
     is_gatha |-> (ctx.gatha_no > 0) \/ ctx.likely_verse,
     gatha_no |-> verse_no(ctx),
     gatha_line |-> verse_line(ctx),
     titles |-> titles_snapshot(ctx),
     variants |-> <<>>]

\* a variant: every variant overwrites the primary fields
fill_primary_overwrite(doc, raw) ==
    [doc EXCEPT !.translator = translator, !.lang = lang, !.text = raw.text]

\* lines 228-233: fill the primary fields that are still None
fill_primary(doc, raw) ==
    [doc EXCEPT
        \* 'translation'
        !.translator = IF @ = None /\ layer = <<"t","r","a","n","s","l","a","t","i","o","n">> THEN translator ELSE @,
        !.lang = IF @ = None /\ lang # None THEN lang ELSE @,
        \* 'translation'
        !.text = IF @ = None /\ layer = <<"t","r","a","n","s","l","a","t","i","o","n">> THEN raw.text ELSE @]

\* lines 236-241: verse metadata and titles follow the context
refresh_context_fields(doc, ctx) ==
    [doc EXCEPT
        !.is_gatha = (ctx.gatha_no > 0) \/ ctx.likely_verse,
        !.gatha_no = verse_no(ctx),
        !.gatha_line = verse_line(ctx),
        !.titles = titles_snapshot(ctx)]

\* a variant: a merge classifies the segment again, by the file at hand
merge_doc_reclassified(doc, raw, ctx) ==
    refresh_context_fields(
        fill_primary([doc EXCEPT !.basket = raw.basket,
                                 !.collection = raw.collection], raw), ctx)

\* lines 226-241
merge_doc(doc, raw, ctx) == refresh_context_fields(fill_primary(doc, raw), ctx)

\* line 249: the title names a vagga
NamesVagga(t) == \E w \in VAGGA_WORDS : Contains(Lower(t), w)

\* lines 245-251: the first of the slots 0.2, 0.3, 0.4 whose title names a
\* vagga, 0 when none does
RECURSIVE FirstVaggaSlot(_, _)
FirstVaggaSlot(ctx, i) ==
    IF i > Len(VAGGA_SLOTS) THEN 0
    ELSE IF /\ VAGGA_SLOTS[i] \in DOMAIN ctx.last_titles
            /\ Truthy(ctx.last_titles[VAGGA_SLOTS[i]])
            /\ NamesVagga(ctx.last_titles[VAGGA_SLOTS[i]])
    THEN i
    ELSE FirstVaggaSlot(ctx, i + 1)

derive_vagga(doc, ctx) ==
    LET i == FirstVaggaSlot(ctx, 1)
    IN  IF (~ Truthy(doc.vagga)) /\ i > 0
        THEN [doc EXCEPT !.vagga = Strip(ctx.last_titles[VAGGA_SLOTS[i]])]
        ELSE doc

\* a variant: a variant of a layer already present is not added
append_variant_once_per_layer(doc, raw) ==
    IF \E i \in 1..Len(doc.variants) : doc.variants[i].layer = layer
    THEN doc
    ELSE [doc EXCEPT !.variants = Append(@,
            [layer |-> layer, lang |-> lang, translator |-> translator,
             text |-> raw.text, source_file |-> basename(files[fi].path)])]

\* a variant: the new variant is put first
append_variant_front(doc, raw) ==
    [doc EXCEPT !.variants =
        <<[layer |-> layer, lang |-> lang, translator |-> translator,
           text |-> raw.text, source_file |-> basename(files[fi].path)]>> \o @]

\* lines 254-260
append_variant(doc, raw) ==
    [doc EXCEPT !.variants = Append(@,
        [layer |-> layer,
         lang |-> lang,
         translator |-> translator,
         text |-> raw.text,
         source_file |-> basename(files[fi].path)])]

\* the value of field f in the first variant that has a truthy one, None
\* when no variant has
RECURSIVE FirstTruthy(_, _, _)
FirstTruthy(variants, f, i) ==
    IF i > Len(variants) THEN None
    ELSE IF Truthy(variants[i][f]) THEN variants[i][f]
    ELSE FirstTruthy(variants, f, i + 1)

FillFrom(doc, f) ==
    IF doc[f] = None /\ FirstTruthy(doc.variants, f, 1) # None
    THEN FirstTruthy(doc.variants, f, 1)
    ELSE doc[f]

\* lines 266-281: the post-pass on one doc
finalize_doc(doc) ==
    [doc EXCEPT !.translator = FillFrom(doc, "translator"),
                !.lang = FillFrom(doc, "lang"),
                !.text = FillFrom(doc, "text")]

(***************************************************************************)
(* gather_segments                                                         *)
(***************************************************************************)
Init ==
    /\ files \in FileLists
    /\ pc = "files"
    /\ fi = 1
    /\ ki = 1
    /\ layer = None /\ lang = None /\ translator = None
    /\ fname_work_id = None
    /\ scheme = None /\ work_number = None
    /\ segments = <<>>
    /\ work_context = <<>>
    /\ op = "none" /\ arg = <<>> /\ res = <<>>
    /\ IdleDocs
    /\ IdleBulk

\* lines 133-138: the next file is opened
OpenFile ==
    /\ pc = "files"
    /\ fi <= Len(files)
    /\ LET v == infer_variant_from_path(files[fi].path)
           w == parse_work_id_from_filename(files[fi].path)
           sn == split_scheme_and_number(OrEmpty(w))
       IN  /\ layer' = v.layer
           /\ lang' = v.lang
           /\ translator' = v.translator
           /\ fname_work_id' = w
           /\ scheme' = sn.scheme
           /\ work_number' = sn.work_number
    /\ ki' = 1
    /\ pc' = "keys"
    /\ UNCHANGED <<files, fi, segments, work_context, callVars, docsVars, bulkVars>>

\* lines 141-143: a key that is no segment key is passed over
SkipKey ==
    /\ pc = "keys"
    /\ ki <= Len(CurData)
    /\ ~ SegKeyMatches(CurData[ki].key)
    /\ ki' = ki + 1
    /\ UNCHANGED <<files, pc, fi, fileVars, scheme, work_number, segments,
                   work_context, callVars, docsVars, bulkVars>>

\* lines 144-260: a segment key is merged
MergeKey ==
    /\ pc = "keys"
    /\ ki <= Len(CurData)
    /\ SegKeyMatches(CurData[ki].key)
    /\ LET raw == RawSegment(CurData[ki].key, CurData[ki].text)
           ctx0 == IF raw.key_work_id \in DOMAIN work_context
                   THEN work_context[raw.key_work_id]
                   ELSE new_context(raw.key_work_id)
           ctx == track_gatha(track_titles(ctx0, raw), raw)
           doc == IF raw.seg_id \notin DOMAIN segments
                  THEN new_doc(raw, ctx)
                  ELSE merge_doc(segments[raw.seg_id], raw, ctx)
       IN  /\ scheme' = raw.scheme
           /\ work_number' = raw.work_number
           /\ work_context' = Put(work_context, raw.key_work_id, ctx)
           /\ segments' = Put(segments, raw.seg_id,
                              append_variant(derive_vagga(doc, ctx), raw))
    /\ ki' = ki + 1
    /\ UNCHANGED <<files, pc, fi, fileVars, callVars, docsVars, bulkVars>>

\* the keys of the file are exhausted
CloseFile ==
    /\ pc = "keys"
    /\ ki > Len(CurData)
    /\ fi' = fi + 1
    /\ pc' = "files"
    /\ UNCHANGED <<files, ki, fileVars, scheme, work_number, segments,
                   work_context, callVars, docsVars, bulkVars>>

\* lines 265-283: the post-pass over all docs, and the return
PostPass ==
    /\ pc = "files"
    /\ fi > Len(files)
    /\ segments' = [k \in DOMAIN segments |-> finalize_doc(segments[k])]
    /\ pc' = "done"
    /\ UNCHANGED <<files, fi, ki, fileVars, scheme, work_number,
                   work_context, callVars, docsVars, bulkVars>>

Next == OpenFile \/ SkipKey \/ MergeKey \/ CloseFile \/ PostPass

Spec == Init /\ [][Next]_vars

(***************************************************************************)
(* What the input holds, for the properties below                          *)
(***************************************************************************)
\* 'root'
ROOT == <<"r","o","o","t">>
\* 'translation'
TRANSLATION == <<"t","r","a","n","s","l","a","t","i","o","n">>

Last(s) == s[Len(s)]

HasKey(file, id) == \E k \in 1..Len(file.data) : file.data[k].key = id
TextIn(file, id) ==
    file.data[CHOOSE k \in 1..Len(file.data) : file.data[k].key = id].text
LayerOf(file) == infer_variant_from_path(file.path).layer

\* the (file, key) places the loops have been through
Places == UNION {{<<f, k>> : k \in 1..Len(files[f].data)} : f \in 1..Len(files)}

Processed ==
    {p \in Places : \/ p[1] < fi
                    \/ p[1] = fi /\ pc = "keys" /\ p[2] < ki}

\* the files that hold the key id, in the order of the file list
FilesWith(id) ==
    SelectSeq([i \in 1..Len(files) |-> i], LAMBDA i : HasKey(files[i], id))

\* the step at hand merges a segment key
MergeStep ==
    /\ pc = "keys"
    /\ ki <= Len(CurData)
    /\ SegKeyMatches(CurData[ki].key)
    /\ ki' = ki + 1

StepKey == CurData[ki].key
StepWork == SegKeyWork(StepKey)
StepSection == SegKeySection(StepKey)

PostPassStep == pc = "files" /\ pc' = "done"

(***************************************************************************)
(* C1.  Once the primary text and translator of a segment have been set    *)
(* from a translation-layer variant, no later root-layer variant of the    *)
(* same segment id changes text, translator or lang, neither in a merge    *)
(* nor in the post-pass.  Stated field by field as well: a text or a       *)
(* translator that comes from a translation-layer variant, and a lang that *)
(* is set, survive every root-layer merge and the post-pass.  (A lang that *)
(* is still None, as after a file whose path ends in "translation", is     *)
(* filled by the next variant that has one.)                               *)
(***************************************************************************)
TextFromTranslation(doc) ==
    /\ doc.text # None
    /\ \E i \in 1..Len(doc.variants) :
          doc.variants[i].layer = TRANSLATION /\ doc.variants[i].text = doc.text

TranslatorFromTranslation(doc) ==
    /\ doc.translator # None
    /\ \E i \in 1..Len(doc.variants) :
          /\ doc.variants[i].layer = TRANSLATION
          /\ doc.variants[i].translator = doc.translator

C1_Kept(id) ==
    LET d == segments[id]
        e == segments'[id]
    IN  /\ TextFromTranslation(d) => e.text = d.text
        /\ TranslatorFromTranslation(d) => e.translator = d.translator
        /\ d.lang # None => e.lang = d.lang
        /\ TextFromTranslation(d) /\ TranslatorFromTranslation(d)
              => e.text = d.text /\ e.translator = d.translator /\ e.lang = d.lang

OneRootOneTranslation(id) ==
    LET fs == FilesWith(id)
    IN  /\ Len(fs) = 2
        /\ {LayerOf(files[fs[1]]), LayerOf(files[fs[2]])} = {ROOT, TRANSLATION}

TranslationFileOf(id) ==
    LET fs == FilesWith(id)
    IN  IF LayerOf(files[fs[1]]) = TRANSLATION THEN files[fs[1]] ELSE files[fs[2]]

C2_TranslationWinsEitherOrder ==
    pc = "done" =>
        \A id \in DOMAIN segments :
            OneRootOneTranslation(id) =>
                LET fs == FilesWith(id)
                    d == segments[id]
                IN  /\ d.text = TextIn(TranslationFileOf(id), id)
                    /\ Len(d.variants) = 2
                    /\ \A j \in 1..2 :
                          /\ d.variants[j].layer = LayerOf(files[fs[j]])
                          /\ d.variants[j].text = TextIn(files[fs[j]], id)

\* the translation-layer file was processed before the root-layer file
C2_Witness ==
    /\ pc = "done"
    /\ \E id \in DOMAIN segments :
          /\ OneRootOneTranslation(id)
          /\ LayerOf(files[FilesWith(id)[1]]) = TRANSLATION
          /\ segments[id].text # TextIn(files[FilesWith(id)[2]], id)

(***************************************************************************)
(* C3.  At every point of the run the result holds exactly one doc per     *)
(* well-formed key processed so far, stored under the key with segment_id  *)
(* equal to it, and the variants of the doc are, one for one and in order, *)
(* the (file, key) places where the key was processed.                     *)
(***************************************************************************)
PlacesOf(id) == {p \in Processed : files[p[1]].data[p[2]].key = id}

\* the places of id in processing order: a key occurs once in a file
PlaceSeq(id) ==
    LET fs == SelectSeq([i \in 1..Len(files) |-> i],
                        LAMBDA i : \E p \in PlacesOf(id) : p[1] = i)
    IN  [j \in 1..Len(fs) |-> files[fs[j]]]

C3_OneDocPerKey ==
    /\ DOMAIN segments =
          {files[p[1]].data[p[2]].key : p \in
              {q \in Processed : SegKeyMatches(files[q[1]].data[q[2]].key)}}
    /\ \A id \in DOMAIN segments :
          LET d == segments[id]
              ps == PlaceSeq(id)
          IN  /\ d.segment_id = id
              /\ Len(d.variants) = Cardinality(PlacesOf(id))
              /\ Len(d.variants) = Len(ps)
              /\ \A j \in 1..Len(ps) :
                    /\ d.variants[j].text = TextIn(ps[j], id)
                    /\ d.variants[j].source_file = basename(ps[j].path)

\* a run that met a malformed key, several keys, and one key in two files
C3_Witness ==
    /\ pc = "done"
    /\ \E p \in Processed : ~ SegKeyMatches(files[p[1]].data[p[2]].key)
    /\ Cardinality(DOMAIN segments) >= 2
    /\ \E id \in DOMAIN segments : Len(segments[id].variants) = 2

(***************************************************************************)
(* C4.  The variants of a doc only grow at the end: no step removes a doc, *)
(* or removes, reorders or rewrites a variant; a merge step appends one    *)
(* variant to the doc of its key and none elsewhere; so the final order is *)
(* the order in which the files holding the key were processed.            *)
(***************************************************************************)
IsPrefix(s, t) == Len(s) <= Len(t) /\ SubSeq(t, 1, Len(s)) = s

C4_Step ==
    /\ \A id \in DOMAIN segments :
          /\ id \in DOMAIN segments'
          /\ IsPrefix(segments[id].variants, segments'[id].variants)
    /\ \A id \in DOMAIN segments' :
          LET before == IF id \in DOMAIN segments
                        THEN Len(segments[id].variants) ELSE 0
          IN  Len(segments'[id].variants) =
                 IF MergeStep /\ id = StepKey THEN before + 1 ELSE before

C4_FinalOrder ==
    pc = "done" =>
        \A id \in DOMAIN segments :
            LET fs == FilesWith(id)
                vs == segments[id].variants
            IN  /\ Len(vs) = Len(fs)
                /\ \A j \in 1..Len(fs) :
                      /\ vs[j].source_file = basename(files[fs[j]].path)
                      /\ vs[j].layer = LayerOf(files[fs[j]])

C4_VariantsAppendOnly == [][C4_Step]_vars /\ []C4_FinalOrder

\* a doc whose variants come from two different files
C4_Witness ==
    /\ pc = "done"
    /\ \E id \in DOMAIN segments :
          /\ Len(segments[id].variants) = 2
          /\ segments[id].variants[1].source_file
                # segments[id].variants[2].source_file

(***************************************************************************)
(* seq_from_section on its own: two sections of one work, written out from *)
(* their numeric components, are handed to the function.                   *)
(***************************************************************************)
CompVals == {0, 1, 10}

CompLists == UNION {[1..n -> CompVals] : n \in 1..Len(coeff)}

RECURSIVE FormatNat(_)
FormatNat(n) ==
    IF n < 10 THEN <<DigitChars[n + 1]>>
    ELSE Append(FormatNat(n \div 10), DigitChars[(n % 10) + 1])

RECURSIVE SectionStr(_)
SectionStr(comps) ==
    IF Len(comps) = 1 THEN FormatNat(comps[1])
    ELSE FormatNat(comps[1]) \o <<".">> \o SectionStr(Tail(comps))

\* a precedes b, component by component as integers; a component that a
\* shorter section lacks counts as 0, as it does in seq_from_section
CompAt(a, i) == IF i <= Len(a) THEN a[i] ELSE 0

Precedes(a, b) ==
    \E i \in 1..Len(coeff) :
        /\ CompAt(a, i) < CompAt(b, i)
        /\ \A j \in 1..(i - 1) : CompAt(a, j) = CompAt(b, j)

Idle ==
    /\ files = <<>>
    /\ pc = "done"
    /\ fi = 1
    /\ ki = 1
    /\ layer = None /\ lang = None /\ translator = None
    /\ fname_work_id = None
    /\ scheme = None /\ work_number = None
    /\ segments = <<>>
    /\ work_context = <<>>

gatherVars == <<files, pc, fi, ki, layer, lang, translator, fname_work_id,
                scheme, work_number, segments, work_context>>

InitSeq ==
    /\ Idle
    /\ IdleDocs
    /\ IdleBulk
    /\ op = "call"
    /\ arg \in [a : CompLists, b : CompLists]
    /\ res = <<>>

CallSeq ==
    /\ op = "call"
    /\ res' = <<seq_from_section(SectionStr(arg.a)),
                seq_from_section(SectionStr(arg.b))>>
    /\ op' = "return"
    /\ UNCHANGED <<arg, gatherVars, docsVars, bulkVars>>

NextSeq == CallSeq

SpecSeq == InitSeq /\ [][NextSeq]_vars

(***************************************************************************)
(* C5.  seq_from_section is strictly order-preserving on sections of up to *)
(* four numeric components: seq(a) < seq(b) if and only if a precedes b    *)
(* component by component.                                                 *)
(***************************************************************************)
C5_SeqOrderPreserving ==
    op = "return" => ((res[1] < res[2]) <=> Precedes(arg.a, arg.b))

(***************************************************************************)
(* C7.  The worked example: the root-layer file of mn10 with the keys      *)
(* mn10:0.1 and mn10:1.1, then the translation-layer file with mn10:1.1.   *)
(* One doc per key; mn10:1.1 is no title, has the translation's text and   *)
(* two variants, root then translation.  Its seq is 1010000 in the claim   *)
(* as made, and 1001000 = 1 * 1000000 + 1 * 1000 in the claim as amended.  *)
(***************************************************************************)
C7_Input == pc = "done" /\ files = <<RootMn10, TransMn10>>

C7_Shape ==
    \* 'mn10:0.1', 'mn10:1.1'
    /\ DOMAIN segments = {<<"m","n","1","0",":","0",".","1">>, <<"m","n","1","0",":","1",".","1">>}
    \* 'mn10:1.1'
    /\ LET d == segments[<<"m","n","1","0",":","1",".","1">>]
       \* 'mn10:1.1'
       IN  /\ d.segment_id = <<"m","n","1","0",":","1",".","1">>
           /\ d.is_title = FALSE
           \* 'Should be discourse'
           /\ d.text = <<"S","h","o","u","l","d"," ","b","e"," ","d","i","s","c","o","u","r","s","e">>
           /\ Len(d.variants) = 2
           /\ d.variants[1].layer = ROOT
           \* 'Thus I have heard.'
           /\ d.variants[1].text = <<"T","h","u","s"," ","I"," ","h","a","v","e"," ","h","e","a","r","d",".">>
           /\ d.variants[2].layer = TRANSLATION
           \* 'Should be discourse'
           /\ d.variants[2].text = <<"S","h","o","u","l","d"," ","b","e"," ","d","i","s","c","o","u","r","s","e">>

LastComponentIsOne(section) ==
    \* '0.'
    ~ StartsWith(section, <<"0",".">>) /\ Last(Split(section, ".")) = <<"1">>

CtxBefore(w) ==
    IF w \in DOMAIN work_context THEN work_context[w]
    ELSE [gatha_no |-> 0, gatha_line |-> 0]

\* the stanza counters of the works in ws stay as they are
CountersKept(ws) ==
    \A v \in ws :
        /\ v \in DOMAIN work_context'
        /\ work_context'[v].gatha_no = work_context[v].gatha_no

C8_Rule(w, boundary) ==
    /\ boundary => /\ work_context'[w].gatha_no = CtxBefore(w).gatha_no + 1
                   /\ work_context'[w].gatha_line = 1
    /\ (~ boundary) => work_context'[w].gatha_no = CtxBefore(w).gatha_no
    /\ CountersKept(DOMAIN work_context \ {w})

C8_BoundaryAsClaimed ==
    [][ IF MergeStep
        THEN C8_Rule(StepWork, LastComponentIsOne(StepSection))
        ELSE CountersKept(DOMAIN work_context) ]_vars

C8_BoundaryAmended ==
    [][ IF MergeStep
        THEN C8_Rule(StepWork, /\ LastComponentIsOne(StepSection)
                               /\ Len(Split(StepSection, ".")) >= 2)
        ELSE CountersKept(DOMAIN work_context) ]_vars

\* boundaries, a title section and the section "1" have all been processed
C8_Witness ==
    /\ pc = "done"
    /\ \E w \in DOMAIN work_context : work_context[w].gatha_no >= 2
    /\ \E id \in DOMAIN segments : segments[id].is_title
    /\ \E id \in DOMAIN segments :
          /\ segments[id].segment_num = <<"1">>
          /\ work_context[SegKeyWork(id)].gatha_no = 0

(***************************************************************************)
(* C9.  Stanza numbering.  The sections 1.1, 1.2, 2.1, 2.2, 2.3 of one     *)
(* work, from one file without title sections, get the stanza numbers      *)
(* 1,1,2,2,2 and the line numbers 1,2,1,2,3.  In every merge step a        *)
(* section that is neither a title nor a boundary, met while the stanza    *)
(* counter is above 0, adds one to the line and leaves the stanza counter; *)
(* a title section changes neither.                                        *)
(***************************************************************************)
\* 'thag1.1:1.1', 'thag1.1:1.2', 'thag1.1:2.1'
ThagKeys == <<<<"t","h","a","g","1",".","1",":","1",".","1">>, <<"t","h","a","g","1",".","1",":","1",".","2">>, <<"t","h","a","g","1",".","1",":","2",".","1">>,
              \* 'thag1.1:2.2', 'thag1.1:2.3'
              <<"t","h","a","g","1",".","1",":","2",".","2">>, <<"t","h","a","g","1",".","1",":","2",".","3">>>>

C9_Example ==
    (pc = "done" /\ files = <<RootThag>>) =>
        /\ DOMAIN segments = Range(ThagKeys)
        /\ \A j \in 1..Len(ThagKeys) :
              /\ segments[ThagKeys[j]].gatha_no = <<1, 1, 2, 2, 2>>[j]
              /\ segments[ThagKeys[j]].gatha_line = <<1, 2, 1, 2, 3>>[j]

C9_Step ==
    MergeStep =>
        LET before == CtxBefore(StepWork)
            after == work_context'[StepWork]
            \* '0.'
            title == StartsWith(StepSection, <<"0",".">>)
            \* '.1'
            boundary == (~ title) /\ EndsWith(StepSection, <<".","1">>)
        IN  /\ ((~ title) /\ (~ boundary) /\ before.gatha_no > 0)
                  => /\ after.gatha_line = before.gatha_line + 1
                     /\ after.gatha_no = before.gatha_no
            /\ title => /\ after.gatha_no = before.gatha_no
                        /\ after.gatha_line = before.gatha_line

C9_StanzaNumbering == []C9_Example /\ [][C9_Step]_vars

C9_Witness ==
    /\ pc = "done"
    /\ files = <<RootThag>>
    \* 'thag1.1:2.3'
    /\ segments[<<"t","h","a","g","1",".","1",":","2",".","3">>].gatha_line = 3

(***************************************************************************)
(* C10.  A work whose id has an alphabetic prefix in the verse-collection  *)
(* set (dhp1, thag1.1) has likely_verse true in its context, and every     *)
(* segment of the work has is_gatha true, boundary or no boundary.         *)
(***************************************************************************)
C10_LikelyVerse ==
    \A w \in DOMAIN work_context :
        AlphaPrefix(w) \in VERSE_Y_WORK_PREFIX =>
            /\ work_context[w].likely_verse
            /\ \A id \in DOMAIN segments :
                  SegKeyWork(id) = w => segments[id].is_gatha

(***************************************************************************)
(* C11.  Title snapshot.  A merge step for a title section s with text t   *)
(* of work W sets entry s of W's title map to t and leaves the other       *)
(* entries; a merge step for any other section leaves the map of W as it   *)
(* is.  The doc created or merged at the step carries as titles exactly    *)
(* the entries of W's map after the step, in ascending order of section.   *)
(* The title maps of the other works, and the titles of the docs the step  *)
(* does not merge, stay as they are; no other step changes either.         *)
(***************************************************************************)
TitleMapBefore(w) ==
    IF w \in DOMAIN work_context THEN work_context[w].last_titles ELSE <<>>

\* titles holds the entries of the map m, one each, ascending by section
IsSnapshotOf(titles, m) ==
    /\ Len(titles) = Cardinality(DOMAIN m)
    /\ {titles[i].section : i \in 1..Len(titles)} = DOMAIN m
    /\ \A i \in 1..Len(titles) : titles[i].text = m[titles[i].section]
    /\ \A i \in 1..Len(titles) : \A j \in (i + 1)..Len(titles) :
          StrLess(titles[i].section, titles[j].section)

TitleMapsKept(ws) ==
    \A v \in ws :
        /\ v \in DOMAIN work_context'
        /\ work_context'[v].last_titles = work_context[v].last_titles

DocTitlesKept(ids) ==
    \A id \in ids :
        /\ id \in DOMAIN segments'
        /\ segments'[id].titles = segments[id].titles

C11_Step ==
    IF MergeStep
    THEN LET before == TitleMapBefore(StepWork)
             after == work_context'[StepWork].last_titles
         \* '0.'
         IN  /\ IF StartsWith(StepSection, <<"0",".">>)
                THEN /\ DOMAIN after = DOMAIN before \cup {StepSection}
                     /\ after[StepSection] = CurData[ki].text
                     /\ \A s \in DOMAIN before \ {StepSection} :
                           after[s] = before[s]
                ELSE after = before
             /\ IsSnapshotOf(segments'[StepKey].titles, after)
             /\ TitleMapsKept(DOMAIN work_context \ {StepWork})
             /\ DocTitlesKept(DOMAIN segments \ {StepKey})
    ELSE /\ TitleMapsKept(DOMAIN work_context)
         /\ DocTitlesKept(DOMAIN segments)

C11_TitleSnapshot == [][C11_Step]_vars

\* a later file gave a title slot a second text, and a doc of the work that
\* is no title was merged after that and carries the second text
C11_Witness ==
    /\ pc = "done"
    /\ \E id \in DOMAIN segments : \E id2 \in DOMAIN segments :
          /\ segments[id].is_title
          /\ Len(segments[id].variants) = 2
          /\ segments[id].variants[1].text # segments[id].variants[2].text
          /\ ~ segments[id2].is_title
          /\ SegKeyWork(id2) = SegKeyWork(id)
          /\ Len(segments[id2].titles) = 1
          /\ segments[id2].titles[1].section = segments[id].segment_num
          /\ segments[id2].titles[1].text = segments[id].variants[2].text

(***************************************************************************)
(* C12.  The counters of a work from one step to the next.  As claimed:    *)
(* neither the stanza counter gatha_no nor the line counter gatha_line of  *)
(* a work ever decreases.  As amended: gatha_no never decreases, and       *)
(* gatha_line never decreases except in the merge step of a stanza         *)
(* boundary of the work, which sets it to 1.                               *)
(***************************************************************************)
StepIsBoundaryOf(w) ==
    /\ MergeStep
    /\ StepWork = w
    \* '0.'
    /\ ~ StartsWith(StepSection, <<"0",".">>)
    \* '.1'
    /\ EndsWith(StepSection, <<".","1">>)

C12_MonotonicAsClaimed ==
    [][ \A w \in DOMAIN work_context :
            /\ w \in DOMAIN work_context'
            /\ work_context'[w].gatha_no >= work_context[w].gatha_no
            /\ work_context'[w].gatha_line >= work_context[w].gatha_line ]_vars

C12_MonotonicAmended ==
    [][ \A w \in DOMAIN work_context :
            /\ w \in DOMAIN work_context'
            /\ work_context'[w].gatha_no >= work_context[w].gatha_no
            /\ \/ work_context'[w].gatha_line >= work_context[w].gatha_line
               \/ /\ StepIsBoundaryOf(w)
                  /\ work_context'[w].gatha_line = 1 ]_vars

\* the second stanza of a work has begun after a first stanza of two lines:
\* the line counter went from 2 back to 1
C12_Witness ==
    \E w \in DOMAIN work_context :
        /\ work_context[w].gatha_no = 2
        /\ work_context[w].gatha_line = 1
        /\ \E id \in DOMAIN segments :
              /\ SegKeyWork(id) = w
              /\ segments[id].gatha_no = 1
              /\ segments[id].gatha_line = 2

(***************************************************************************)
(* C13.  The finalization fallback.  In the post-pass every doc whose      *)
(* translator, lang or text is still None gets that field from the first   *)
(* variant of its list that has a value other than None for the field, and *)
(* a field that is set stays.  So, when the run is over, a doc seen only   *)
(* in root-layer files has the text of its first variant, and no doc that  *)
(* has a variant with a text has the text None.                            *)
(***************************************************************************)
RECURSIVE FirstNonNull(_, _, _)
FirstNonNull(variants, f, i) ==
    IF i > Len(variants) THEN None
    ELSE IF variants[i][f] # None THEN variants[i][f]
    ELSE FirstNonNull(variants, f, i + 1)

C13_PostPassFills ==
    PostPassStep =>
        /\ DOMAIN segments' = DOMAIN segments
        /\ \A id \in DOMAIN segments : \A f \in {"translator", "lang", "text"} :
              segments'[id][f] =
                 IF segments[id][f] = None
                 THEN FirstNonNull(segments[id].variants, f, 1)
                 ELSE segments[id][f]

C13_Consequences ==
    pc = "done" =>
        \A id \in DOMAIN segments :
            LET d == segments[id]
            IN  /\ (\A i \in 1..Len(d.variants) : d.variants[i].layer = ROOT)
                      => d.text = d.variants[1].text
                /\ (\E i \in 1..Len(d.variants) : d.variants[i].text # None)
                      => d.text # None

C13_FinalizationFallback == [][C13_PostPassFills]_vars /\ []C13_Consequences

(***************************************************************************)
(* C14.  A key that does not have the form <work-id>:<dotted-section> is   *)
(* skipped without effect: the step that meets it creates no doc, appends  *)
(* no variant, creates and changes no work context, and changes nothing    *)
(* that the processing of the later keys and files reads; only the loop    *)
(* moves on to the next key.  So no doc and no work context ever stems     *)
(* from such a key.                                                        *)
(***************************************************************************)
\* work-id: letters or hyphens, then digits or dots; a colon; a section that
\* starts with a digit and holds digits, lowercase letters, dots and hyphens
HasKeyForm(key) ==
    \E c \in 1..Len(key) :
        LET w == Take(key, c - 1)
            s == Drop(key, c)
        IN  /\ key[c] = ":"
            /\ \E n \in 1..(Len(w) - 1) :
                  /\ \A i \in 1..n : w[i] \in WorkLetters
                  /\ \A i \in (n + 1)..Len(w) : w[i] \in NumDots
            /\ s # <<>>
            /\ IsDigit(s[1])
            /\ \A i \in 1..Len(s) : s[i] \in SectionChars

AtMalformedKey ==
    pc = "keys" /\ ki <= Len(CurData) /\ ~ HasKeyForm(CurData[ki].key)

C14_SkipStep ==
    AtMalformedKey =>
        /\ ki' = ki + 1
        /\ UNCHANGED <<files, pc, fi, layer, lang, translator, fname_work_id,
                       scheme, work_number, segments, work_context>>

WellFormedProcessed ==
    {files[p[1]].data[p[2]].key : p \in
        {q \in Processed : HasKeyForm(files[q[1]].data[q[2]].key)}}

C14_NoTrace ==
    /\ DOMAIN segments = WellFormedProcessed
    /\ DOMAIN work_context =
          {Take(id, PosIn(id, ":") - 1) : id \in WellFormedProcessed}

C14_MalformedSkipped == [][C14_SkipStep]_vars /\ []C14_NoTrace

\* a malformed key was met, a later key of the same file has its doc, and a
\* second file was processed after that
C14_Witness ==
    /\ pc = "done"
    /\ Len(files) = 2
    /\ \E k \in 1..Len(files[1].data) :
          /\ ~ HasKeyForm(files[1].data[k].key)
          /\ \E k2 \in (k + 1)..Len(files[1].data) :
                files[1].data[k2].key \in DOMAIN segments
    /\ \E id \in DOMAIN segments : ~ HasKey(files[1], id)

(***************************************************************************)
(* infer_variant_from_path on its own: a path is written out from its      *)
(* components with one of the two separators and handed to the function,   *)
(* in the loader's version and in the version of utils/bilara_load.py.     *)
(***************************************************************************)
\* 'root', 'translation', 'en', 'sujato'
PathComponents == {<<"r","o","o","t">>, <<"t","r","a","n","s","l","a","t","i","o","n">>, <<"e","n">>, <<"s","u","j","a","t","o">>,
                   \* 'mn10.json'
                   <<"m","n","1","0",".","j","s","o","n">>, <<>>}

MaxParts == 4

PathLists == UNION {[1..n -> PathComponents] : n \in 1..MaxParts}

RECURSIVE JoinPath(_, _)
JoinPath(parts, sep) ==
    IF Len(parts) = 1 THEN parts[1]
    ELSE parts[1] \o <<sep>> \o JoinPath(Tail(parts), sep)

InitPath ==
    /\ Idle
    /\ IdleDocs
    /\ IdleBulk
    /\ op = "call"
    /\ arg \in [parts : PathLists, sep : {"/", "\\"}]
    /\ res = <<>>

CallPath ==
    /\ op = "call"
    /\ res' = <<infer_variant_from_path(JoinPath(arg.parts, arg.sep)),
                infer_variant_from_path_legacy(JoinPath(arg.parts, arg.sep))>>
    /\ op' = "return"
    /\ UNCHANGED <<arg, gatherVars, docsVars, bulkVars>>

NextPath == CallPath

SpecPath == InitPath /\ [][NextPath]_vars

(***************************************************************************)
(* C15.  infer_variant_from_path, for every path.  A file under the        *)
(* directories translation/<lang>/<translator>/ gets the layer             *)
(* "translation" with that lang and that translator; a file of the root    *)
(* tree (a component "root", and not under such directories) gets ("root", *)
(* "pli", None); a path with neither a "root" nor a "translation"          *)
(* component gets ("unknown", None, None); and the translator is set only  *)
(* when the layer is "translation".                                        *)
(***************************************************************************)
\* the places of a component "translation" that two directories and a file
\* name follow
TranslationDirs(parts) ==
    {i \in 1..Len(parts) : parts[i] = TRANSLATION /\ i + 3 <= Len(parts)}

C15_Classified(parts, r) ==
    /\ TranslationDirs(parts) # {} =>
          \E i \in TranslationDirs(parts) :
              /\ r.layer = TRANSLATION
              /\ r.lang = parts[i + 1]
              /\ r.translator = parts[i + 2]
    /\ (TranslationDirs(parts) = {} /\ ROOT \in Range(parts)) =>
          \* 'pli'
          r = [layer |-> ROOT, lang |-> <<"p","l","i">>, translator |-> None]
    /\ (ROOT \notin Range(parts) /\ TRANSLATION \notin Range(parts)) =>
          \* 'unknown'
          r = [layer |-> <<"u","n","k","n","o","w","n">>, lang |-> None, translator |-> None]
    /\ r.translator # None => r.layer = TRANSLATION

C15_PathClassification ==
    (op = "return" /\ Len(res) = 2 /\ "parts" \in DOMAIN arg) =>
        /\ C15_Classified(arg.parts, res[1])
        /\ C15_Classified(arg.parts, res[2])

(***************************************************************************)
(* src/index_tipitaka.py: the canonical numbering of a record.  A node of  *)
(* the hierarchy is a record of type, id and head, each a string or None.  *)
(***************************************************************************)
\* ASCII_MAP: the small and the capital letters it maps, and their images
AsciiOf == <<"a", "i", "u", "n", "n", "t", "d", "n", "l", "m">>

to_ascii_char(c) ==
    IF c \in Range(AccentLower) THEN AsciiOf[PosIn(AccentLower, c)]
    ELSE IF c \in Range(AccentUpper)
    THEN UpperChar(AsciiOf[PosIn(AccentUpper, c)])
    ELSE c

to_ascii(s) == IF Truthy(s) THEN [i \in 1..Len(s) |-> to_ascii_char(s[i])] ELSE s

SN_SAMYUTTA_TO_NO ==
    \* 'devata', 'devaputta', 'kosala'
    << <<<<"d","e","v","a","t","a">>, 1>>, <<<<"d","e","v","a","p","u","t","t","a">>, 2>>, <<<<"k","o","s","a","l","a">>, 3>>,
       \* 'mara', 'bhikkhuni'
       <<<<"m","a","r","a">>, 4>>, <<<<"b","h","i","k","k","h","u","n","i">>, 5>>,
       \* 'khandha', 'radha', 'ditthi'
       <<<<"k","h","a","n","d","h","a">>, 22>>, <<<<"r","a","d","h","a">>, 23>>, <<<<"d","i","t","t","h","i">>, 24>>,
       \* 'salayatana', 'vedana'
       <<<<"s","a","l","a","y","a","t","a","n","a">>, 35>>, <<<<"v","e","d","a","n","a">>, 36>> >>

\* in the order of the dict
AN_NIPATA_HEAD_TO_NO ==
    \* 'eka', 'duka', 'tika', 'catukka'
    << <<<<"e","k","a">>, 1>>, <<<<"d","u","k","a">>, 2>>, <<<<"t","i","k","a">>, 3>>, <<<<"c","a","t","u","k","k","a">>, 4>>,
       \* 'pancaka', 'chakka', 'sattaka'
       <<<<"p","a","n","c","a","k","a">>, 5>>, <<<<"c","h","a","k","k","a">>, 6>>, <<<<"s","a","t","t","a","k","a">>, 7>>,
       \* 'atthaka', 'navaka', 'dasaka'
       <<<<"a","t","t","h","a","k","a">>, 8>>, <<<<"n","a","v","a","k","a">>, 9>>, <<<<"d","a","s","a","k","a">>, 10>>,
       \* 'ekadasaka'
       <<<<"e","k","a","d","a","s","a","k","a">>, 11>> >>

\* re.sub(r"(w1ṃ?|w1|w2)", "", t): every match is taken out, from the left
RECURSIVE RemoveWord(_, _, _)
RemoveWord(t, w1, w2) ==
    IF t = <<>> THEN <<>>
    ELSE IF StartsWith(t, w1)
    THEN LET n == IF Len(t) > Len(w1) /\ t[Len(w1) + 1] = "m-underdot"
                  THEN Len(w1) + 1 ELSE Len(w1)
         IN  RemoveWord(Drop(t, n), w1, w2)
    ELSE IF StartsWith(t, w2) THEN RemoveWord(Drop(t, Len(w2)), w1, w2)
    ELSE <<t[1]>> \o RemoveWord(Tail(t), w1, w2)

_norm(s) ==
    IF ~ Truthy(s) THEN <<>>
    ELSE LET t0 == Lower(to_ascii(s))
             \* 'samyutta', 'sam yutta'
             t1 == RemoveWord(t0, <<"s","a","m","y","u","t","t","a">>, <<"s","a","m"," ","y","u","t","t","a">>)
             \* 'nipata', 'nipata'
             t2 == RemoveWord(t1, <<"n","i","p","a","t","a">>, <<"n","i","p","a","t","a">>)
         IN  SelectSeq(t2, LAMBDA c : c \in Lowers \cup Digits)

\* re.match(r"\s*(\d+)", to_ascii(subhead))
_int_from_subhead(subhead) ==
    IF ~ Truthy(subhead) THEN NoneInt
    ELSE LET t == to_ascii(subhead)
             ws == SpanLen(t, {" "})
             n == SpanLen(Drop(t, ws), Digits)
         IN  IF n >= 1 THEN DigitsValue(SubSeq(t, ws + 1, ws + n)) ELSE NoneInt

\* (n.get("id") or "").lower()
NodeId(n) == Lower(OrEmpty(n.id))

\* (not x) for an int or None
Falsy(x) == x = NoneInt \/ x = 0

\* counts = [13,10,11]
counts == <<13, 10, 11>>

\* sum(counts[:k])
RECURSIVE SumCounts(_)
SumCounts(k) == IF k = 0 THEN 0 ELSE counts[k] + SumCounts(k - 1)

\* re.fullmatch(r"dn[123]", i), and likewise for mn
IsPartId(i, letters) ==
    Len(i) = 3 /\ Take(i, 2) = letters /\ i[3] \in {"1", "2", "3"}

\* lines 177-181: the vagga of the first node whose id is dn1, dn2 or dn3
RECURSIVE FirstDnVagga(_, _)
FirstDnVagga(hierarchy, k) ==
    IF k > Len(hierarchy) THEN NoneInt
    \* 'dn'
    ELSE IF IsPartId(NodeId(hierarchy[k]), <<"d","n">>)
    THEN DigitsValue(Drop(NodeId(hierarchy[k]), 2))
    ELSE FirstDnVagga(hierarchy, k + 1)

\* a variant: the hint is not held against the size of the vagga
_dn_number_unchecked(hierarchy, s_idx) ==
    LET vagga == FirstDnVagga(hierarchy, 1)
    IN  IF Falsy(vagga) \/ Falsy(s_idx) THEN NoneInt
        ELSE SumCounts(vagga - 1) + s_idx

\* a variant: a record with no vagga among its ancestors is put in the first
_dn_number_default_vagga(hierarchy, s_idx) ==
    LET v == FirstDnVagga(hierarchy, 1)
        vagga == IF Falsy(v) THEN 1 ELSE v
    IN  IF Falsy(s_idx) THEN NoneInt
        ELSE IF s_idx < 1 \/ s_idx > counts[vagga] THEN NoneInt
        ELSE SumCounts(vagga - 1) + s_idx

_dn_number(hierarchy, s_idx) ==
    LET vagga == FirstDnVagga(hierarchy, 1)
    IN  IF Falsy(vagga) \/ Falsy(s_idx) THEN NoneInt
        ELSE IF s_idx < 1 \/ s_idx > counts[vagga] THEN NoneInt
        ELSE SumCounts(vagga - 1) + s_idx

\* re.fullmatch(r"mn(\d+)_(\d+)", i)
IsMnBookVagga(i) ==
    LET b == SpanLen(Drop(i, 2), Digits)
        v == SpanLen(Drop(i, 2 + b + 1), Digits)
    \* 'mn'
    IN  /\ StartsWith(i, <<"m","n">>)
        /\ b >= 1
        /\ Len(i) >= 2 + b + 2
        /\ i[2 + b + 1] = "_"
        /\ v >= 1
        /\ Len(i) = 2 + b + 1 + v

\* lines 189-193: every node is looked at, a later one overrides
RECURSIVE MnScan(_, _, _)
MnScan(hierarchy, k, bv) ==
    IF k > Len(hierarchy) THEN bv
    ELSE LET i == NodeId(hierarchy[k])
             b == SpanLen(Drop(i, 2), Digits)
             \* 'mn'
             bv1 == IF IsPartId(i, <<"m","n">>)
                    THEN [bv EXCEPT !.book = DigitsValue(Drop(i, 2))]
                    ELSE bv
             bv2 == IF IsMnBookVagga(i)
                    THEN [book |-> DigitsValue(SubSeq(i, 3, 2 + b)),
                          vagga |-> DigitsValue(Drop(i, 2 + b + 1))]
                    ELSE bv1
         IN  MnScan(hierarchy, k + 1, bv2)

_mn_number(hierarchy, s_idx) ==
    LET bv == MnScan(hierarchy, 1, [book |-> NoneInt, vagga |-> NoneInt])
    IN  IF Falsy(bv.book) \/ Falsy(bv.vagga) \/ Falsy(s_idx) THEN NoneInt
        ELSE (bv.book - 1) * 50 + (bv.vagga - 1) * 10 + s_idx

\* d.get(key) for a table of pairs, NoneInt when the key is not there
Lookup(table, key) ==
    IF \E j \in 1..Len(table) : table[j][1] = key
    THEN table[CHOOSE j \in 1..Len(table) : table[j][1] = key][2]
    ELSE NoneInt

\* lines 199-203: the first node that is a samyutta by its type or its head,
\* 0 when there is none
RECURSIVE FirstSamyutta(_, _)
FirstSamyutta(hierarchy, k) ==
    IF k > Len(hierarchy) THEN 0
    \* 'samyutta'
    ELSE IF \/ Contains(Lower(OrEmpty(hierarchy[k].type)), <<"s","a","m","y","u","t","t","a">>)
            \* 'samyutta'
            \/ Contains(Lower(to_ascii(OrEmpty(hierarchy[k].head))), <<"s","a","m","y","u","t","t","a">>)
    THEN k
    ELSE FirstSamyutta(hierarchy, k + 1)

\* f"{a}.{b}"
Dotted(a, b) == FormatNat(a) \o <<".">> \o FormatNat(b)

_sn_number(hierarchy, s_idx) ==
    LET sam == FirstSamyutta(hierarchy, 1)
    IN  IF sam = 0 \/ Falsy(s_idx) THEN None
        ELSE LET s_no == Lookup(SN_SAMYUTTA_TO_NO, _norm(hierarchy[sam].head))
             IN  IF Falsy(s_no) THEN None ELSE Dotted(s_no, s_idx)

\* re.match(r"an(\d+)$", i)
IsAnId(i) ==
    \* 'an'
    StartsWith(i, <<"a","n">>) /\ Len(i) >= 3 /\ AllDigits(Drop(i, 2))

\* lines 211-215: the number in the first id of the form an<digits>
RECURSIVE FirstAnId(_, _)
FirstAnId(hierarchy, k) ==
    IF k > Len(hierarchy) THEN NoneInt
    ELSE IF IsAnId(NodeId(hierarchy[k]))
    THEN DigitsValue(Drop(NodeId(hierarchy[k]), 2))
    ELSE FirstAnId(hierarchy, k + 1)

\* lines 219-220: the number of the first stem of the table that h starts
\* with, NoneInt when it starts with none
RECURSIVE FirstStem(_, _)
FirstStem(h, j) ==
    IF j > Len(AN_NIPATA_HEAD_TO_NO) THEN NoneInt
    ELSE IF StartsWith(h, AN_NIPATA_HEAD_TO_NO[j][1])
    THEN AN_NIPATA_HEAD_TO_NO[j][2]
    ELSE FirstStem(h, j + 1)

\* lines 217-221: the first node whose head starts with a stem
RECURSIVE FirstNipataHead(_, _)
FirstNipataHead(hierarchy, k) ==
    IF k > Len(hierarchy) THEN NoneInt
    ELSE IF ~ Falsy(FirstStem(_norm(hierarchy[k].head), 1))
    THEN FirstStem(_norm(hierarchy[k].head), 1)
    ELSE FirstNipataHead(hierarchy, k + 1)

_an_number(hierarchy, s_idx) ==
    LET byId == FirstAnId(hierarchy, 1)
        nip == IF Falsy(byId) THEN FirstNipataHead(hierarchy, 1) ELSE byId
    IN  IF (~ Falsy(nip)) /\ (~ Falsy(s_idx)) THEN Dotted(nip, s_idx) ELSE None

\* lines 224-241, on the fields of the doc that it reads; the result is the
\* two fields that it may set
attach_canonical(doc) ==
    LET coll == doc.collection
        hier == doc.hierarchy
        s_idx == _int_from_subhead(doc.subhead)
        unset == [canonical_scheme |-> None, canonical_ref |-> None]
        set(scheme_, n) == [canonical_scheme |-> scheme_,
                            canonical_ref |-> scheme_ \o <<" ">> \o n]
    \* 'DN'
    IN  IF coll = <<"D","N">>
        THEN LET n == _dn_number(hier, s_idx)
             \* 'DN'
             IN  IF Falsy(n) THEN unset ELSE set(<<"D","N">>, FormatNat(n))
        \* 'MN'
        ELSE IF coll = <<"M","N">>
        THEN LET n == _mn_number(hier, s_idx)
             \* 'MN'
             IN  IF Falsy(n) THEN unset ELSE set(<<"M","N">>, FormatNat(n))
        \* 'SN'
        ELSE IF coll = <<"S","N">>
        THEN LET n == _sn_number(hier, s_idx)
             \* 'SN'
             IN  IF Truthy(n) THEN set(<<"S","N">>, n) ELSE unset
        \* 'AN'
        ELSE IF coll = <<"A","N">>
        THEN LET n == _an_number(hier, s_idx)
             \* 'AN'
             IN  IF Truthy(n) THEN set(<<"A","N">>, n) ELSE unset
        ELSE unset

(***************************************************************************)
(* attach_canonical on its own: a doc of a collection, with a hierarchy of *)
(* up to MaxDepth nodes (from the root to the leaf) taken from the nodes   *)
(* that files of the collection hold, and a subhead.                       *)
(***************************************************************************)
HNode(t, i, h) == [type |-> t, id |-> i, head |-> h]

\* 'book', 'dn1', 'book', 'dn2'
DnNodes == {HNode(<<"b","o","o","k">>, <<"d","n","1">>, None), HNode(<<"b","o","o","k">>, <<"d","n","2">>, None),
            \* 'book', 'DN3', 'book', 'dn4'
            HNode(<<"b","o","o","k">>, <<"D","N","3">>, None), HNode(<<"b","o","o","k">>, <<"d","n","4">>, None),
            \* 'sutta', 'dn1_5', 'Mahalisutta'
            HNode(<<"s","u","t","t","a">>, <<"d","n","1","_","5">>, <<"M","a","h","a","l","i","s","u","t","t","a">>),
            \* 'vagga', 'mn1_2'
            HNode(<<"v","a","g","g","a">>, <<"m","n","1","_","2">>, None), HNode(None, None, None)}

\* 'book', 'mn1', 'book', 'mn3'
MnNodes == {HNode(<<"b","o","o","k">>, <<"m","n","1">>, None), HNode(<<"b","o","o","k">>, <<"m","n","3">>, None),
            \* 'vagga', 'mn1_2', 'vagga', 'mn3_5'
            HNode(<<"v","a","g","g","a">>, <<"m","n","1","_","2">>, None), HNode(<<"v","a","g","g","a">>, <<"m","n","3","_","5">>, None),
            \* 'vagga', 'mn0_1', 'book', 'dn1'
            HNode(<<"v","a","g","g","a">>, <<"m","n","0","_","1">>, None), HNode(<<"b","o","o","k">>, <<"d","n","1">>, None),
            HNode(None, None, None)}

\* 'samyutta', 'sn1', 'Devata samyutta'
SnNodes == {HNode(<<"s","a","m","y","u","t","t","a">>, <<"s","n","1">>, <<"D","e","v","a","t","a"," ","s","a","m","y","u","t","t","a">>),
            \* 'Khandha Samyutta'
            HNode(None, None, <<"K","h","a","n","d","h","a"," ","S","a","m","y","u","t","t","a">>),
            \* 'samyutta', 'Devatāsaṃyuttaṃ'
            HNode(<<"s","a","m","y","u","t","t","a">>, None, <<"D","e","v","a","t","a-macron","s","a","m-underdot","y","u","t","t","a","m-underdot">>),
            \* 'samyutta', 'Nidana samyutta'
            HNode(<<"s","a","m","y","u","t","t","a">>, None, <<"N","i","d","a","n","a"," ","s","a","m","y","u","t","t","a">>),
            \* 'vagga', 'sn1_1', 'Nalavaggo'
            HNode(<<"v","a","g","g","a">>, <<"s","n","1","_","1">>, <<"N","a","l","a","v","a","g","g","o">>),
            HNode(None, None, None)}

\* 'Ekakanipātapāḷi', 'Dukanipātapāḷi', 'Tikanipātapāḷi'
AnHeads == <<<<"E","k","a","k","a","n","i","p","a-macron","t","a","p","a-macron","l-underdot","i">>, <<"D","u","k","a","n","i","p","a-macron","t","a","p","a-macron","l-underdot","i">>, <<"T","i","k","a","n","i","p","a-macron","t","a","p","a-macron","l-underdot","i">>,
             \* 'Catukkanipātapāḷi', 'Pañcakanipātapāḷi'
             <<"C","a","t","u","k","k","a","n","i","p","a-macron","t","a","p","a-macron","l-underdot","i">>, <<"P","a","n-tilde","c","a","k","a","n","i","p","a-macron","t","a","p","a-macron","l-underdot","i">>,
             \* 'Chakkanipātapāḷi', 'Sattakanipātapāḷi'
             <<"C","h","a","k","k","a","n","i","p","a-macron","t","a","p","a-macron","l-underdot","i">>, <<"S","a","t","t","a","k","a","n","i","p","a-macron","t","a","p","a-macron","l-underdot","i">>,
             \* 'Aṭṭhakanipātapāḷi', 'Navakanipātapāḷi'
             <<"A","t-underdot","t-underdot","h","a","k","a","n","i","p","a-macron","t","a","p","a-macron","l-underdot","i">>, <<"N","a","v","a","k","a","n","i","p","a-macron","t","a","p","a-macron","l-underdot","i">>,
             \* 'Dasakanipātapāḷi', 'Ekādasakanipātapāḷi'
             <<"D","a","s","a","k","a","n","i","p","a-macron","t","a","p","a-macron","l-underdot","i">>, <<"E","k","a-macron","d","a","s","a","k","a","n","i","p","a-macron","t","a","p","a-macron","l-underdot","i">>>>

\* 'book'
AnNodes == {HNode(<<"b","o","o","k">>, None, AnHeads[j]) : j \in 1..Len(AnHeads)}
           \* 'book', 'an5', 'book', 'an'
           \cup {HNode(<<"b","o","o","k">>, <<"a","n","5">>, None), HNode(<<"b","o","o","k">>, <<"a","n">>, None),
                 \* 'vagga', 'an1_1', '1. Rūpādivaggo'
                 HNode(<<"v","a","g","g","a">>, <<"a","n","1","_","1">>, <<"1","."," ","R","u-macron","p","a-macron","d","i","v","a","g","g","o">>),
                 HNode(None, None, None)}

\* 'book', 'dn1'
OtherNodes == {HNode(<<"b","o","o","k">>, <<"d","n","1">>, None), HNode(None, None, None)}

NodesOf(coll) ==
    \* 'DN'
    IF coll = <<"D","N">> THEN DnNodes
    \* 'MN'
    ELSE IF coll = <<"M","N">> THEN MnNodes
    \* 'SN'
    ELSE IF coll = <<"S","N">> THEN SnNodes
    \* 'AN'
    ELSE IF coll = <<"A","N">> THEN AnNodes
    ELSE OtherNodes

\* 'DN', 'MN', 'SN', 'AN', 'KN'
Collections == {<<"D","N">>, <<"M","N">>, <<"S","N">>, <<"A","N">>, <<"K","N">>, None}

\* '1. Paṭhamasutta', '10.', '11. x'
Subheads == {None, <<>>, <<"1","."," ","P","a","t-underdot","h","a","m","a","s","u","t","t","a">>, <<"5">>, <<"1","0",".">>, <<"1","1","."," ","x">>,
             \* '13', '14', 'Sutta 2'
             <<"1","3">>, <<"1","4">>, <<"0">>, <<"S","u","t","t","a"," ","2">>}

MaxDepth == 2

Hierarchies(coll) == UNION {[1..n -> NodesOf(coll)] : n \in 0..MaxDepth}

CanonDocs ==
    UNION {[collection : {c}, hierarchy : Hierarchies(c), subhead : Subheads]
              : c \in Collections}

InitCanon ==
    /\ Idle
    /\ IdleDocs
    /\ IdleBulk
    /\ op = "call"
    /\ arg \in CanonDocs
    /\ res = <<>>

CallCanon ==
    /\ op = "call"
    /\ res' = attach_canonical(arg)
    /\ op' = "return"
    /\ UNCHANGED <<arg, gatherVars, docsVars, bulkVars>>

NextCanon == CallCanon

SpecCanon == InitCanon /\ [][NextCanon]_vars

(***************************************************************************)
(* C16.  DN numbering.  A doc of collection DN whose hierarchy holds a     *)
(* node with the id dn1, dn2 or dn3 (the first such from the root being    *)
(* part v) and whose subhead starts with an integer h.  As claimed: its    *)
(* canonical reference is "DN n" with n = (the sizes of the parts before   *)
(* v, of 13, 10, 11) + h, and every reference that is set has n in 1..34.  *)
(* As amended: so it is when 1 <= h <= the size of part v, and for any     *)
(* other h no reference is set.  The example: ancestor dn1, hint 5, gives  *)
(* "DN 5".                                                                 *)
(***************************************************************************)
\* the digits a subhead starts with, after blanks
HintDigits(subhead) ==
    LET t == Drop(subhead, SpanLen(subhead, {" "}))
    IN  Take(t, SpanLen(t, Digits))

HasHint(subhead) == subhead # None /\ HintDigits(subhead) # <<>>
Hint(subhead) == DigitsValue(HintDigits(subhead))

IdIn(node, ids) == node.id # None /\ Lower(node.id) \in ids

\* 'dn1', 'dn2', 'dn3'
DnPartIds == {<<"d","n","1">>, <<"d","n","2">>, <<"d","n","3">>}
PartSize(v) == <<13, 10, 11>>[v]
PartsBefore(v) == <<0, 13, 23>>[v]

\* the part of the first node from the root that is a part of DN
DnPart(hierarchy) ==
    LET k == CHOOSE k \in 1..Len(hierarchy) :
                /\ IdIn(hierarchy[k], DnPartIds)
                /\ \A j \in 1..(k - 1) : ~ IdIn(hierarchy[j], DnPartIds)
    \* 'dn1', 'dn2', 'dn3'
    IN  PosIn(<<<<"d","n","1">>, <<"d","n","2">>, <<"d","n","3">>>>, Lower(hierarchy[k].id))

C16_Premise ==
    /\ op = "return"
    /\ "collection" \in DOMAIN arg
    \* 'DN'
    /\ arg.collection = <<"D","N">>
    /\ \E k \in 1..Len(arg.hierarchy) : IdIn(arg.hierarchy[k], DnPartIds)
    /\ HasHint(arg.subhead)

\* 'DN'
DnRef(n) == [canonical_scheme |-> <<"D","N">>,
             \* 'DN '
             canonical_ref |-> <<"D","N"," ">> \o FormatNat(n)]

NoRef == [canonical_scheme |-> None, canonical_ref |-> None]

C16_InRange ==
    \* 'DN'
    (op = "return" /\ "collection" \in DOMAIN arg /\ arg.collection = <<"D","N">>) =>
        \/ res = NoRef
        \/ \E n \in 1..34 : res = DnRef(n)

C16_DnNumberAsClaimed ==
    /\ C16_Premise =>
          res = DnRef(PartsBefore(DnPart(arg.hierarchy)) + Hint(arg.subhead))
    /\ C16_InRange

C16_DnNumberAmended ==
    /\ C16_Premise =>
          LET v == DnPart(arg.hierarchy)
              h == Hint(arg.subhead)
          IN  IF 1 <= h /\ h <= PartSize(v)
              THEN res = DnRef(PartsBefore(v) + h)
              ELSE res = NoRef
    /\ C16_InRange

\* the example: the hint 5 under the ancestor dn1
C16_Witness ==
    /\ C16_Premise
    \* 'book', 'dn1'
    /\ arg.hierarchy = <<HNode(<<"b","o","o","k">>, <<"d","n","1">>, None),
                         \* 'sutta', 'dn1_5', 'Mahalisutta'
                         HNode(<<"s","u","t","t","a">>, <<"d","n","1","_","5">>, <<"M","a","h","a","l","i","s","u","t","t","a">>)>>
    /\ arg.subhead = <<"5">>
    \* 'DN 5'
    /\ res.canonical_ref = <<"D","N"," ","5">>

(***************************************************************************)
(* C17.  The numbering degrades to null and never guesses.  A doc of       *)
(* collection DN, MN, SN or AN gets neither canonical_scheme nor           *)
(* canonical_ref when its subhead has no leading integer, or the ancestor  *)
(* its collection needs is not in the hierarchy (DN: an id dn1..dn3; MN:   *)
(* an id mn<book>_<vagga>; SN: a samyutta node; AN: an id an<digits> or a  *)
(* head that names a class), or, for SN, the name of the samyutta is not   *)
(* in the table.  A doc of any other collection gets neither.  The two     *)
(* fields are always set together.                                         *)
(***************************************************************************)
IsMnVaggaId(node) ==
    /\ node.id # None
    /\ LET i == Lower(node.id)
       \* 'mn'
       IN  /\ StartsWith(i, <<"m","n">>)
           /\ \E k \in 4..(Len(i) - 1) :
                 /\ i[k] = "_"
                 /\ AllDigits(SubSeq(i, 3, k - 1))
                 /\ AllDigits(Drop(i, k))

IsSamyuttaNode(node) ==
    \* 'samyutta'
    \/ node.type # None /\ Contains(Lower(node.type), <<"s","a","m","y","u","t","t","a">>)
    \* 'samyutta'
    \/ node.head # None /\ Contains(Lower(to_ascii(node.head)), <<"s","a","m","y","u","t","t","a">>)

SamyuttaNames == {SN_SAMYUTTA_TO_NO[j][1] : j \in 1..Len(SN_SAMYUTTA_TO_NO)}

ClassStems == {AN_NIPATA_HEAD_TO_NO[j][1] : j \in 1..Len(AN_NIPATA_HEAD_TO_NO)}

NamesClass(node) == \E stem \in ClassStems : StartsWith(_norm(node.head), stem)

IsAnClassId(node) ==
    /\ node.id # None
    /\ LET i == Lower(node.id)
       \* 'an'
       IN  StartsWith(i, <<"a","n">>) /\ Len(i) >= 3 /\ AllDigits(Drop(i, 2))

\* what the collection needs is missing from the doc
C17_Unknown(doc) ==
    LET h == doc.hierarchy
        nodes == {h[k] : k \in 1..Len(h)}
    \* 'DN', 'MN', 'SN', 'AN'
    IN  \/ doc.collection \notin {<<"D","N">>, <<"M","N">>, <<"S","N">>, <<"A","N">>}
        \/ ~ HasHint(doc.subhead)
        \* 'DN'
        \/ doc.collection = <<"D","N">> /\ \A n \in nodes : ~ IdIn(n, DnPartIds)
        \* 'MN'
        \/ doc.collection = <<"M","N">> /\ \A n \in nodes : ~ IsMnVaggaId(n)
        \* 'SN'
        \/ /\ doc.collection = <<"S","N">>
           /\ \/ \A n \in nodes : ~ IsSamyuttaNode(n)
              \/ LET k == CHOOSE k \in 1..Len(h) :
                             /\ IsSamyuttaNode(h[k])
                             /\ \A j \in 1..(k - 1) : ~ IsSamyuttaNode(h[j])
                 IN  _norm(h[k].head) \notin SamyuttaNames
        \* 'AN'
        \/ /\ doc.collection = <<"A","N">>
           /\ \A n \in nodes : ~ IsAnClassId(n) /\ ~ NamesClass(n)

C17_NullWhenUnknown ==
    (op = "return" /\ "collection" \in DOMAIN arg) =>
        /\ C17_Unknown(arg) => res = NoRef
        /\ (res.canonical_scheme = None) <=> (res.canonical_ref = None)

\* a doc of SN with a hint, under a samyutta whose name is not in the table
C17_Witness ==
    /\ op = "return"
    /\ "collection" \in DOMAIN arg
    \* 'SN'
    /\ arg.collection = <<"S","N">>
    /\ HasHint(arg.subhead)
    /\ Len(arg.hierarchy) = 1
    \* 'Nidana samyutta'
    /\ arg.hierarchy[1].head = <<"N","i","d","a","n","a"," ","s","a","m","y","u","t","t","a">>
    /\ res = NoRef

(***************************************************************************)
(* C18.  The AN class lookup.  A doc of collection AN with a hint h >= 1,  *)
(* no node of whose hierarchy has an id an<digits>: the first node from    *)
(* the root whose head names a class of the table gives the class, each of *)
(* the eleven names standing for its own number (eka 1, duka 2, tika 3,    *)
(* catukka 4, pancaka 5, chakka 6, sattaka 7, atthaka 8, navaka 9,         *)
(* dasaka 10, ekadasaka 11), and canonical_ref is "AN {class}.{h}".        *)
(***************************************************************************)
\* the class a head names: the longest name of the table that the
\* normalised head starts with (ekadasaka, not eka, for the Elevens)
ClassOf(head) ==
    LET h == _norm(head)
        j == CHOOSE j \in 1..Len(AN_NIPATA_HEAD_TO_NO) :
                /\ StartsWith(h, AN_NIPATA_HEAD_TO_NO[j][1])
                /\ \A k \in 1..Len(AN_NIPATA_HEAD_TO_NO) :
                      StartsWith(h, AN_NIPATA_HEAD_TO_NO[k][1]) =>
                         Len(AN_NIPATA_HEAD_TO_NO[k][1])
                            <= Len(AN_NIPATA_HEAD_TO_NO[j][1])
    IN  <<1, 2, 3, 4, 5, 6, 7, 8, 9, 10, 11>>[j]

C18_Premise ==
    /\ op = "return"
    /\ "collection" \in DOMAIN arg
    \* 'AN'
    /\ arg.collection = <<"A","N">>
    /\ HasHint(arg.subhead)
    /\ Hint(arg.subhead) >= 1
    /\ \A k \in 1..Len(arg.hierarchy) : ~ IsAnClassId(arg.hierarchy[k])
    /\ \E k \in 1..Len(arg.hierarchy) : NamesClass(arg.hierarchy[k])

C18_AnClassLookup ==
    C18_Premise =>
        LET k == CHOOSE k \in 1..Len(arg.hierarchy) :
                    /\ NamesClass(arg.hierarchy[k])
                    /\ \A j \in 1..(k - 1) : ~ NamesClass(arg.hierarchy[j])
            class == ClassOf(arg.hierarchy[k].head)
        \* 'AN'
        IN  res = [canonical_scheme |-> <<"A","N">>,
                   \* 'AN '
                   canonical_ref |-> <<"A","N"," ">> \o FormatNat(class) \o <<".">>
                                       \o FormatNat(Hint(arg.subhead))]

(***************************************************************************)
(* src/index_tipitaka.py: the docs of one markup file.  The parsed file is *)
(* a record: its name, whether it has a body, the texts of its             *)
(* <p rend="nikaya"> elements, and its leaf divs.  A leaf is its chain of  *)
(* divs, the leaf first and then its ancestors from the nearest on, and    *)
(* its <p> elements in document order.  A div is a record of its type, id  *)
(* and n attributes and of its <head> children, a head being a rend and a  *)
(* text; a <p> is a record of its rend and n attributes, the text of its   *)
(* first <hi rend="paranum"> (None without one) and its whole text.  The   *)
(* fields of a doc that are copied from the file and not read again        *)
(* (book, chapter, edition_pages, html, lang, source_path) are left out.   *)
(***************************************************************************)
\* " ".join(vals)
RECURSIVE JoinBlank(_)
JoinBlank(vals) ==
    IF vals = <<>> THEN <<>>
    ELSE IF Len(vals) = 1 THEN vals[1]
    ELSE vals[1] \o <<" ">> \o JoinBlank(Tail(vals))

\* texts(): the values stripped, the empty ones dropped
texts(vals) ==
    SelectSeq([i \in 1..Len(vals) |-> Strip(vals[i])], LAMBDA v : v # <<>>)

\* '.mul.xml', 'mula', '.att.xml', 'atthakatha'
LAYER_BY_SUFFIX == << <<<<".","m","u","l",".","x","m","l">>, <<"m","u","l","a">>>>, <<<<".","a","t","t",".","x","m","l">>, <<"a","t","t","h","a","k","a","t","h","a">>>>,
                      \* '.tik.xml', 'tika'
                      <<<<".","t","i","k",".","x","m","l">>, <<"t","i","k","a">>>> >>

RECURSIVE LayerFrom(_, _)
LayerFrom(n, j) ==
    \* 'unknown'
    IF j > Len(LAYER_BY_SUFFIX) THEN <<"u","n","k","n","o","w","n">>
    ELSE IF EndsWith(n, LAYER_BY_SUFFIX[j][1]) THEN LAYER_BY_SUFFIX[j][2]
    ELSE LayerFrom(n, j + 1)

infer_layer_from_filename(path) == LayerFrom(Lower(basename(path)), 1)

\* in the order of the dict: key, basket, collection
NIKAYA_MAP ==
    \* 'dīghanikāyo', 'sutta', 'DN', 'dighanikayo', 'sutta', 'DN'
    << <<<<"d","i-macron","g","h","a","n","i","k","a-macron","y","o">>, <<"s","u","t","t","a">>, <<"D","N">>>>, <<<<"d","i","g","h","a","n","i","k","a","y","o">>, <<"s","u","t","t","a">>, <<"D","N">>>>,
       \* 'majjhimanikāye', 'sutta', 'MN'
       <<<<"m","a","j","j","h","i","m","a","n","i","k","a-macron","y","e">>, <<"s","u","t","t","a">>, <<"M","N">>>>,
       \* 'majjhimanikaye', 'sutta', 'MN'
       <<<<"m","a","j","j","h","i","m","a","n","i","k","a","y","e">>, <<"s","u","t","t","a">>, <<"M","N">>>>,
       \* 'saṃyuttanikāye', 'sutta', 'SN'
       <<<<"s","a","m-underdot","y","u","t","t","a","n","i","k","a-macron","y","e">>, <<"s","u","t","t","a">>, <<"S","N">>>>,
       \* 'saṁyuttanikāye', 'sutta', 'SN'
       <<<<"s","a","m-overdot","y","u","t","t","a","n","i","k","a-macron","y","e">>, <<"s","u","t","t","a">>, <<"S","N">>>>,
       \* 'samyuttanikaye', 'sutta', 'SN'
       <<<<"s","a","m","y","u","t","t","a","n","i","k","a","y","e">>, <<"s","u","t","t","a">>, <<"S","N">>>>,
       \* 'aṅguttaranikāye', 'sutta', 'AN'
       <<<<"a","n-overdot","g","u","t","t","a","r","a","n","i","k","a-macron","y","e">>, <<"s","u","t","t","a">>, <<"A","N">>>>,
       \* 'anguttaranikaye', 'sutta', 'AN'
       <<<<"a","n","g","u","t","t","a","r","a","n","i","k","a","y","e">>, <<"s","u","t","t","a">>, <<"A","N">>>>,
       \* 'khuddakanikāye', 'sutta', 'KN'
       <<<<"k","h","u","d","d","a","k","a","n","i","k","a-macron","y","e">>, <<"s","u","t","t","a">>, <<"K","N">>>>,
       \* 'khuddakanikaye', 'sutta', 'KN'
       <<<<"k","h","u","d","d","a","k","a","n","i","k","a","y","e">>, <<"s","u","t","t","a">>, <<"K","N">>>>,
       \* 'vinayapiṭake', 'vinaya'
       <<<<"v","i","n","a","y","a","p","i","t-underdot","a","k","e">>, <<"v","i","n","a","y","a">>, None>>,
       \* 'vinayapitake', 'vinaya'
       <<<<"v","i","n","a","y","a","p","i","t","a","k","e">>, <<"v","i","n","a","y","a">>, None>>,
       \* 'abhidhammapiṭake', 'abhidhamma'
       <<<<"a","b","h","i","d","h","a","m","m","a","p","i","t-underdot","a","k","e">>, <<"a","b","h","i","d","h","a","m","m","a">>, None>>,
       \* 'abhidhammapitake', 'abhidhamma'
       <<<<"a","b","h","i","d","h","a","m","m","a","p","i","t","a","k","e">>, <<"a","b","h","i","d","h","a","m","m","a">>, None>> >>

RECURSIVE BannerFrom(_, _, _)
BannerFrom(low, lowa, j) ==
    IF j > Len(NIKAYA_MAP) THEN [basket |-> None, collection |-> None]
    ELSE IF Contains(low, NIKAYA_MAP[j][1]) \/ Contains(lowa, NIKAYA_MAP[j][1])
    THEN [basket |-> NIKAYA_MAP[j][2], collection |-> NIKAYA_MAP[j][3]]
    ELSE BannerFrom(low, lowa, j + 1)

\* lines 93-101, without the raw banner, which is not used
infer_banner(root) ==
    LET vals == texts(root.nikaya)
        low == Lower(Strip(JoinBlank(vals)))
    IN  IF vals = <<>> THEN [basket |-> None, collection |-> None]
        ELSE BannerFrom(low, to_ascii(low), 1)

\* texts(div, "./head[@rend='r']/text()"), and "./head/text()" for r = None
HeadTexts(div, r) ==
    LET hs == SelectSeq(div.heads, LAMBDA h : r = None \/ h.rend = r)
    IN  texts([i \in 1..Len(hs) |-> hs[i].text])

\* lines 105-108: the rends in the order they are tried, None for any head
\* 'title', 'chapter', 'book'
HEAD_RENDS == <<<<"t","i","t","l","e">>, <<"c","h","a","p","t","e","r">>, <<"b","o","o","k">>, None>>

\* the first text of the heads of the first rend, from the j-th on, under
\* which the div has a head with a text
RECURSIVE OwnHead(_, _)
OwnHead(div, j) ==
    IF j > Len(HEAD_RENDS) THEN None
    ELSE IF HeadTexts(div, HEAD_RENDS[j]) # <<>>
    THEN HeadTexts(div, HEAD_RENDS[j])[1]
    ELSE OwnHead(div, j + 1)

\* lines 109-111: the first head with a text of the nearest ancestor that
\* has one; chain[k] is the ancestor looked at
RECURSIVE AncestorHead(_, _)
AncestorHead(chain, k) ==
    IF k > Len(chain) THEN None
    ELSE IF HeadTexts(chain[k], None) # <<>> THEN HeadTexts(chain[k], None)[1]
    ELSE AncestorHead(chain, k + 1)

\* a variant: a head of the div itself is taken in document order
nearest_head_first_own(chain) == AncestorHead(chain, 1)

\* nearest_head(div), chain being the div and then its ancestors
nearest_head(chain) ==
    IF OwnHead(chain[1], 1) # None THEN OwnHead(chain[1], 1)
    ELSE AncestorHead(chain, 2)

\* node.get("id") or node.get("n")
IdOrN(div) == IF Truthy(div.id) THEN div.id ELSE div.n

\* lines 114-127: from the root to the leaf
build_div_path(chain) ==
    [k \in 1..Len(chain) |->
        LET j == Len(chain) + 1 - k
        IN  [type |-> chain[j].type,
             id |-> IdOrN(chain[j]),
             head |-> nearest_head(Drop(chain, j - 1))]]

\* COLL_RE: the alternatives in their order
\* 'dn', 'mn', 'sn', 'an', 'kp', 'dhp', 'ud', 'iti'
COLL_PREFIXES == <<<<"d","n">>, <<"m","n">>, <<"s","n">>, <<"a","n">>, <<"k","p">>, <<"d","h","p">>, <<"u","d">>, <<"i","t","i">>,
                   \* 'snp', 'vv', 'pv', 'thag', 'thig', 'vin', 'bd'
                   <<"s","n","p">>, <<"v","v">>, <<"p","v">>, <<"t","h","a","g">>, <<"t","h","i","g">>, <<"v","i","n">>, <<"b","d">>,
                   \* 'abh'
                   <<"a","b","h">>>>

\* COLL_RE.match(s).group(1).upper(), None when there is no match
RECURSIVE CollMatch(_, _)
CollMatch(s, j) ==
    IF j > Len(COLL_PREFIXES) THEN None
    ELSE IF StartsWith(Lower(s), COLL_PREFIXES[j]) THEN Upper(COLL_PREFIXES[j])
    ELSE CollMatch(s, j + 1)

\* 'DN', 'MN', 'SN', 'AN', 'KP', 'DHP', 'UD', 'ITI'
SUTTA_PREFS == {<<"D","N">>, <<"M","N">>, <<"S","N">>, <<"A","N">>, <<"K","P">>, <<"D","H","P">>, <<"U","D">>, <<"I","T","I">>,
                \* 'SNP', 'VV', 'PV', 'THAG', 'THIG'
                <<"S","N","P">>, <<"V","V">>, <<"P","V">>, <<"T","H","A","G">>, <<"T","H","I","G">>}

\* line 267: the id of a div as the pattern is tried on it
DivId(div) ==
    Lower(IF Truthy(div.id) THEN div.id
          ELSE IF Truthy(div.n) THEN div.n ELSE <<>>)

\* lines 266-277: the first div of the chain whose id matches, 0 if none
RECURSIVE FirstCollDiv(_, _)
FirstCollDiv(chain, k) ==
    IF k > Len(chain) THEN 0
    ELSE IF CollMatch(DivId(chain[k]), 1) # None THEN k
    ELSE FirstCollDiv(chain, k + 1)

\* lines 265-277: the fallback through the ids of the leaf and its ancestors
by_div_ids(bc, chain) ==
    LET k == FirstCollDiv(chain, 1)
        pref == CollMatch(DivId(chain[k]), 1)
    IN  IF Truthy(bc.collection) \/ k = 0 THEN bc
        ELSE IF pref \in SUTTA_PREFS
        \* 'sutta'
        THEN [basket |-> IF Truthy(bc.basket) THEN bc.basket ELSE <<"s","u","t","t","a">>,
              collection |-> pref]
        \* 'VIN', 'BD', 'vinaya'
        ELSE IF pref \in {<<"V","I","N">>, <<"B","D">>} THEN [bc EXCEPT !.basket = <<"v","i","n","a","y","a">>]
        \* 'ABH', 'abhidhamma'
        ELSE IF pref = <<"A","B","H">> THEN [bc EXCEPT !.basket = <<"a","b","h","i","d","h","a","m","m","a">>]
        ELSE bc

\* lines 279-290: the fallback through the name of the file
by_filename(bc, path) ==
    LET pref == CollMatch(Lower(basename(path)), 1)
    IN  IF ~ (\/ ~ Truthy(bc.basket)
              \* 'sutta'
              \/ bc.basket = <<"s","u","t","t","a">> /\ ~ Truthy(bc.collection))
        THEN bc
        ELSE IF pref \in SUTTA_PREFS
        \* 'sutta'
        THEN [basket |-> <<"s","u","t","t","a">>,
              collection |-> IF Truthy(bc.collection) THEN bc.collection
                             ELSE pref]
        \* 'VIN', 'BD', 'vinaya'
        ELSE IF pref \in {<<"V","I","N">>, <<"B","D">>} THEN [bc EXCEPT !.basket = <<"v","i","n","a","y","a">>]
        \* 'ABH', 'abhidhamma'
        ELSE IF pref = <<"A","B","H">> THEN [bc EXCEPT !.basket = <<"a","b","h","i","d","h","a","m","m","a">>]
        ELSE bc

\* lines 292-293
by_default(bc) ==
    \* 'extracanonical'
    IF Truthy(bc.basket) THEN bc ELSE [bc EXCEPT !.basket = <<"e","x","t","r","a","c","a","n","o","n","i","c","a","l">>]

\* a variant: what is left unmatched is filed under the suttas
classify_default_sutta(bc, chain, path) ==
    LET b == by_filename(by_div_ids(bc, chain), path)
    \* 'sutta'
    IN  IF Truthy(b.basket) THEN b ELSE [b EXCEPT !.basket = <<"s","u","t","t","a">>]

\* lines 265-293: basket and collection for a leaf, from those at hand
classify(bc, chain, path) == by_default(by_filename(by_div_ids(bc, chain), path))

\* the characters that may follow a paragraph number: . : and the two dots
\* U+00B7 and U+2022
PARA_PUNCT == {".", ":", "middle-dot", "bullet"}

\* lines 149-153
para_no_of(p) ==
    IF Truthy(p.n) \/ p.paranum = None THEN p.n
    ELSE IF Strip(p.paranum) # <<>> THEN Strip(p.paranum)
    ELSE None

\* lines 154-158: pat = ^\s*{para_no}\s*[\.·•:]?\s+ taken off once
clean_text(p) ==
    LET para_no == para_no_of(p)
        raw == Strip(p.text)
        after == Drop(raw, Len(para_no))
        rest == Drop(after, SpanLen(after, {" "}))
    IN  IF ~ Truthy(para_no) \/ ~ StartsWith(raw, para_no) THEN raw
        ELSE IF /\ rest # <<>>
                /\ rest[1] \in PARA_PUNCT
                /\ SpanLen(Tail(rest), {" "}) >= 1
        THEN Strip(Tail(rest))
        ELSE IF SpanLen(after, {" "}) >= 1 THEN Strip(rest)
        ELSE raw

\* f"{order:04d}"
Pad4(order) ==
    LET d == FormatNat(order)
    IN  IF Len(d) >= 4 THEN d
        ELSE [i \in 1..(4 - Len(d)) |-> "0"] \o d

\* the texts of the <p> of the leaf that have the rend r
ParaTexts(leaf, r) ==
    LET ps == SelectSeq(leaf.paras, LAMBDA p : p.rend = r)
    IN  texts([i \in 1..Len(ps) |-> ps[i].text])

FirstOr(vals, default) == IF vals # <<>> THEN vals[1] ELSE default

\* lines 297-340: the doc of the <p> number order of the leaf
doc_of(leaf, order, bc, path) ==
    LET p == leaf.paras[order]
        para_no == para_no_of(p)
        lf == leaf.chain[1]
        leaf_id == IF Truthy(lf.id) THEN lf.id
                   \* 'div'
                   ELSE IF Truthy(lf.n) THEN lf.n ELSE <<"d","i","v">>
        seg_suffix == IF Truthy(para_no) THEN para_no ELSE Pad4(order)
        d == [basket |-> bc.basket,
              collection |-> bc.collection,
              text_layer |-> infer_layer_from_filename(path),
              \* 'title'
              title |-> FirstOr(ParaTexts(leaf, <<"t","i","t","l","e">>),
                                nearest_head(leaf.chain)),
              \* 'subhead'
              subhead |-> FirstOr(ParaTexts(leaf, <<"s","u","b","h","e","a","d">>), None),
              hierarchy |-> build_div_path(leaf.chain),
              div_id |-> leaf_id,
              \* '.p.'
              segment_id |-> leaf_id \o <<".","p",".">> \o seg_suffix,
              order |-> order,
              para_no |-> para_no,
              rend |-> p.rend,
              text |-> clean_text(p),
              source_file |-> basename(path)]
        c == attach_canonical(d)
    IN  [basket |-> d.basket, collection |-> d.collection,
         text_layer |-> d.text_layer, title |-> d.title,
         subhead |-> d.subhead, hierarchy |-> d.hierarchy,
         canonical_scheme |-> c.canonical_scheme,
         canonical_ref |-> c.canonical_ref,
         div_id |-> d.div_id, segment_id |-> d.segment_id,
         order |-> d.order, para_no |-> d.para_no, rend |-> d.rend,
         text |-> d.text, source_file |-> d.source_file]

\* a variant: only the paragraphs that are kept are counted
leaf_docs_kept_counted(leaf, bc, path) ==
    LET orders == SelectSeq([i \in 1..Len(leaf.paras) |-> i],
                            LAMBDA i : clean_text(leaf.paras[i]) # <<>>)
    IN  [j \in 1..Len(orders) |->
            [doc_of(leaf, orders[j], bc, path) EXCEPT !.order = j]]

\* lines 295-340: the docs of the leaf, one for each <p> with a text left
leaf_docs(leaf, bc, path) ==
    LET orders == SelectSeq([i \in 1..Len(leaf.paras) |-> i],
                            LAMBDA i : clean_text(leaf.paras[i]) # <<>>)
    IN  [j \in 1..Len(orders) |-> doc_of(leaf, orders[j], bc, path)]

(***************************************************************************)
(* nearest_head on its own: a div and its ancestors, each with up to two   *)
(* heads out of HeadPool.                                                  *)
(***************************************************************************)
\* 'title'
HEAD_TITLE == [rend |-> <<"t","i","t","l","e">>, text |-> <<"T">>]
\* 'chapter'
HEAD_CHAPTER == [rend |-> <<"c","h","a","p","t","e","r">>, text |-> <<"C">>]
\* 'book'
HEAD_BOOK == [rend |-> <<"b","o","o","k">>, text |-> <<"B">>]
\* a head without a rend attribute
HEAD_PLAIN == [rend |-> None, text |-> <<"H">>]
\* a head of white space only, which texts() drops
\* 'title'
HEAD_BLANK == [rend |-> <<"t","i","t","l","e">>, text |-> <<" ">>]

HeadPool == {HEAD_TITLE, HEAD_CHAPTER, HEAD_BOOK, HEAD_PLAIN, HEAD_BLANK}

\* no head, one head, two heads
HeadLists ==
    {<<>>} \cup {<<h>> : h \in HeadPool}
           \cup {<<g, h>> : g \in HeadPool, h \in HeadPool}

\* 'book'
HeadDivs == {[type |-> <<"b","o","o","k">>, id |-> None, n |-> None, heads |-> hs] :
             hs \in HeadLists}

HeadChains == UNION {[1..n -> HeadDivs] : n \in 1..MaxDepth}

InitHead ==
    /\ Idle
    /\ IdleDocs
    /\ IdleBulk
    /\ op = "call"
    /\ arg \in HeadChains
    /\ res = <<>>

CallHead ==
    /\ op = "call"
    /\ res' = nearest_head(arg)
    /\ op' = "return"
    /\ UNCHANGED <<arg, gatherVars, docsVars, bulkVars>>

NextHead == CallHead

SpecHead == InitHead /\ [][NextHead]_vars

(***************************************************************************)
(* C20.  Heading resolution.  As claimed: nearest_head of a division is    *)
(* the first heading found trying a head of rendering title, then chapter, *)
(* then book, then any head, on the division itself; when the division has *)
(* no heading, the ancestors are searched from the nearest to the farthest *)
(* with the same order of preference on each; when no division on the path *)
(* has a heading the result is None.  A heading is a head with a text      *)
(* other than white space.                                                 *)
(***************************************************************************)
\* the heading of one division by the order of preference, None without one
PreferredHead(div) ==
    LET byRend(r) == SelectSeq(div.heads,
                         LAMBDA h : (r = None \/ h.rend = r)
                                    /\ Strip(h.text) # <<>>)
        first(r) == Strip(byRend(r)[1].text)
    \* 'title', 'title'
    IN  IF byRend(<<"t","i","t","l","e">>) # <<>> THEN first(<<"t","i","t","l","e">>)
        \* 'chapter', 'chapter'
        ELSE IF byRend(<<"c","h","a","p","t","e","r">>) # <<>> THEN first(<<"c","h","a","p","t","e","r">>)
        \* 'book', 'book'
        ELSE IF byRend(<<"b","o","o","k">>) # <<>> THEN first(<<"b","o","o","k">>)
        ELSE IF byRend(None) # <<>> THEN first(None)
        ELSE None

\* the divisions of the chain that have a heading, as indices
WithHeading(chain) == {k \in 1..Len(chain) : PreferredHead(chain[k]) # None}

Nearest(S) == CHOOSE k \in S : \A j \in S : k <= j

ClaimedHead(chain) ==
    IF WithHeading(chain) = {} THEN None
    ELSE PreferredHead(chain[Nearest(WithHeading(chain))])

C20_HeadingResolution ==
    op = "return" => res = ClaimedHead(arg)

\* the part of it that is about the division itself and about the absence
\* of headings
C20_OwnDivision ==
    op = "return" =>
        /\ PreferredHead(arg[1]) # None => res = PreferredHead(arg[1])
        /\ WithHeading(arg) = {} <=> res = None
        /\ WithHeading(arg) # {} =>
               \E h \in Range(arg[Nearest(WithHeading(arg))].heads) :
                   res = Strip(h.text)

\* an ancestor whose first head is not its preferred one
C20_AncestorInDocumentOrder ==
    (/\ op = "return"
     /\ Len(arg) >= 2
     /\ PreferredHead(arg[1]) = None
     /\ arg[2].heads = <<HEAD_BOOK, HEAD_TITLE>>)
    => res = <<"B">>

(***************************************************************************)
(* docs_from_file as a state machine.  xfile is the parsed file, xpc the   *)
(* position in the function, basket and collection its two locals of that  *)
(* name, todo the leaves of leaf_text_divs not yet visited (as indices     *)
(* into xfile.leaves) and docs the list being built.  leaf_text_divs       *)
(* iterates over a set of elements, so the leaves are visited in any       *)
(* order.                                                                  *)
(***************************************************************************)
Div(type, id, n, heads) == [type |-> type, id |-> id, n |-> n, heads |-> heads]

Para(rend, n, paranum, text) ==
    [rend |-> rend, n |-> n, paranum |-> paranum, text |-> text]

\* 'bodytext', '1. Evaṃ me sutaṃ'
P_NUMBERED == Para(<<"b","o","d","y","t","e","x","t">>, <<"1">>, <<"1">>, <<"1","."," ","E","v","a","m-underdot"," ","m","e"," ","s","u","t","a","m-underdot">>)
\* 'bodytext', '2 Ekaṃ samayaṃ'
P_PARANUM == Para(<<"b","o","d","y","t","e","x","t">>, None, <<"2">>, <<"2"," ","E","k","a","m-underdot"," ","s","a","m","a","y","a","m-underdot">>)
\* 'bodytext', 'Ekaṃ samayaṃ'
P_PLAIN == Para(<<"b","o","d","y","t","e","x","t">>, None, None, <<"E","k","a","m-underdot"," ","s","a","m","a","y","a","m-underdot">>)
\* 'centre'
P_BLANK == Para(<<"c","e","n","t","r","e">>, None, None, <<" ">>)
\* 'subhead', '1. Paribbājakakathā'
P_SUBHEAD == Para(<<"s","u","b","h","e","a","d">>, None, None, <<"1","."," ","P","a","r","i","b","b","a-macron","j","a","k","a","k","a","t","h","a-macron">>)
\* 'title', 'Brahmajālasuttaṃ'
P_TITLE == Para(<<"t","i","t","l","e">>, None, None, <<"B","r","a","h","m","a","j","a-macron","l","a","s","u","t","t","a","m-underdot">>)

\* a sutta of the first part of DN, with its id
LEAF_DN ==
    \* 'sutta', 'dn1_1'
    [chain |-> <<Div(<<"s","u","t","t","a">>, <<"d","n","1","_","1">>, None, <<>>),
                 \* 'book', 'dn1'
                 Div(<<"b","o","o","k">>, <<"d","n","1">>, None,
                     \* 'book', 'Sīlakkhandhavaggapāḷi'
                     <<[rend |-> <<"b","o","o","k">>, text |-> <<"S","i-macron","l","a","k","k","h","a","n","d","h","a","v","a","g","g","a","p","a-macron","l-underdot","i">>]>>)>>,
     paras |-> <<P_SUBHEAD, P_NUMBERED, P_PLAIN>>]

\* a leaf named by its n attribute
LEAF_MN ==
    \* 'sutta', 'mn1_2'
    [chain |-> <<Div(<<"s","u","t","t","a">>, None, <<"m","n","1","_","2">>, <<HEAD_TITLE>>)>>,
     paras |-> <<P_BLANK, P_PARANUM>>]

\* a leaf whose id, as that of its ancestor, names no collection
LEAF_OTHER ==
    \* 'sutta', 'xx1'
    [chain |-> <<Div(<<"s","u","t","t","a">>, <<"x","x","1">>, None, <<>>),
                 \* 'book'
                 Div(<<"b","o","o","k">>, None, None, <<HEAD_BOOK>>)>>,
     paras |-> <<P_TITLE, P_PLAIN>>]

\* a leaf without id and n
LEAF_ANON ==
    \* 'sutta'
    [chain |-> <<Div(<<"s","u","t","t","a">>, None, None, <<>>)>>,
     paras |-> <<P_PLAIN, P_PLAIN>>]

LEAF_VIN ==
    \* 'chapter', 'vin1_1'
    [chain |-> <<Div(<<"c","h","a","p","t","e","r">>, <<"v","i","n","1","_","1">>, None, <<HEAD_CHAPTER>>)>>,
     paras |-> <<P_NUMBERED>>]

\* the ancestor names the basket
LEAF_ABH ==
    \* 'chapter'
    [chain |-> <<Div(<<"c","h","a","p","t","e","r">>, None, None, <<>>),
                 \* 'book', 'abh2'
                 Div(<<"b","o","o","k">>, <<"a","b","h","2">>, None, <<>>)>>,
     paras |-> <<P_BLANK, P_PLAIN>>]

\* an id of the Suttanipata
LEAF_SNP ==
    \* 'sutta', 'snp1_1'
    [chain |-> <<Div(<<"s","u","t","t","a">>, <<"s","n","p","1","_","1">>, None, <<>>)>>,
     paras |-> <<P_PARANUM, P_BLANK>>]

LeafPool == {LEAF_DN, LEAF_MN, LEAF_OTHER, LEAF_ANON, LEAF_VIN, LEAF_ABH,
             LEAF_SNP}

MaxLeaves == 2

LeafLists == UNION {[1..n -> LeafPool] : n \in 0..MaxLeaves}

\* the texts of the <p rend="nikaya"> of a file
\* 'Dīghanikāyo', 'Vinayapiṭake', 'Namo tassa'
Banners == {<<>>, <<<<"D","i-macron","g","h","a","n","i","k","a-macron","y","o">>>>, <<<<"V","i","n","a","y","a","p","i","t-underdot","a","k","e">>>>, <<<<"N","a","m","o"," ","t","a","s","s","a">>>>}

\* 'cscd/s0101m.mul.xml', 'cscd/vin01m.mul.xml'
XmlNames == {<<"c","s","c","d","/","s","0","1","0","1","m",".","m","u","l",".","x","m","l">>, <<"c","s","c","d","/","v","i","n","0","1","m",".","m","u","l",".","x","m","l">>,
             \* 'cscd/abh01m.att.xml', 'cscd/mn1.tik.xml'
             <<"c","s","c","d","/","a","b","h","0","1","m",".","a","t","t",".","x","m","l">>, <<"c","s","c","d","/","m","n","1",".","t","i","k",".","x","m","l">>}

XmlFile(name, body, nikaya, leaves) ==
    [name |-> name, body |-> body, nikaya |-> nikaya, leaves |-> leaves]

XmlFiles ==
    {XmlFile(name, TRUE, nikaya, leaves) :
        name \in XmlNames, nikaya \in Banners, leaves \in LeafLists}
    \cup {XmlFile(name, FALSE, <<>>, <<>>) : name \in XmlNames}

InitDocs ==
    /\ Idle
    /\ IdleBulk
    /\ op = "none" /\ arg = <<>> /\ res = <<>>
    /\ xfile \in XmlFiles
    /\ xpc = "start"
    /\ basket = None /\ collection = None
    /\ todo = {}
    /\ docs = <<>>

\* lines 247-256
StartFile ==
    /\ xpc = "start"
    /\ IF ~ xfile.body
       THEN /\ xpc' = "done"
            /\ UNCHANGED <<basket, collection, todo, docs>>
       ELSE /\ basket' = infer_banner(xfile).basket
            /\ collection' = infer_banner(xfile).collection
            /\ todo' = 1..Len(xfile.leaves)
            /\ docs' = <<>>
            /\ xpc' = "leaves"
    /\ UNCHANGED <<xfile, gatherVars, callVars,
                   bulkVars>>

\* lines 258-340: one turn of the loop over the leaves
ProcessLeaf(l) ==
    /\ xpc = "leaves"
    /\ l \in todo
    /\ LET leaf == xfile.leaves[l]
           bc == classify([basket |-> basket, collection |-> collection],
                          leaf.chain, xfile.name)
       IN  /\ basket' = bc.basket
           /\ collection' = bc.collection
           /\ docs' = docs \o leaf_docs(leaf, bc, xfile.name)
    /\ todo' = todo \ {l}
    /\ UNCHANGED <<xfile, xpc, gatherVars, callVars,
                   bulkVars>>

\* line 342
ReturnDocs ==
    /\ xpc = "leaves"
    /\ todo = {}
    /\ xpc' = "done"
    /\ UNCHANGED <<xfile, basket, collection, todo, docs, gatherVars, callVars,
                   bulkVars>>

NextDocs ==
    \/ StartFile
    \/ \E l \in todo : ProcessLeaf(l)
    \/ ReturnDocs

SpecDocs == InitDocs /\ [][NextDocs]_vars

(***************************************************************************)
(* C19.  The classifier cascade of docs_from_file.  As claimed: when       *)
(* neither the banner, nor the id of the leaf or of one of its ancestors,  *)
(* nor the name of the file matches an entry of the tables, the docs of    *)
(* the leaf have the basket "extracanonical" and no collection; and every  *)
(* doc has a basket out of sutta, vinaya, abhidhamma, extracanonical.      *)
(***************************************************************************)
\* 'sutta', 'vinaya', 'abhidhamma', 'extracanonical'
BASKETS == {<<"s","u","t","t","a">>, <<"v","i","n","a","y","a">>, <<"a","b","h","i","d","h","a","m","m","a">>, <<"e","x","t","r","a","c","a","n","o","n","i","c","a","l">>}

\* a key of NIKAYA_MAP occurs in the banner, as written or without accents
BannerMatches(f) ==
    LET low == Lower(Strip(JoinBlank(texts(f.nikaya))))
    IN  /\ texts(f.nikaya) # <<>>
        /\ \E j \in DOMAIN NIKAYA_MAP :
               \/ Contains(low, NIKAYA_MAP[j][1])
               \/ Contains(to_ascii(low), NIKAYA_MAP[j][1])

\* the string starts with a collection prefix, in whatever case
HasCollPrefix(str) ==
    \E j \in DOMAIN COLL_PREFIXES : StartsWith(Lower(str), COLL_PREFIXES[j])

\* the id (or, without one, the n) of the leaf or of an ancestor matches
IdsMatch(leaf) ==
    \E k \in DOMAIN leaf.chain :
        \/ Truthy(leaf.chain[k].id) /\ HasCollPrefix(leaf.chain[k].id)
        \/ /\ ~ Truthy(leaf.chain[k].id)
           /\ Truthy(leaf.chain[k].n)
           /\ HasCollPrefix(leaf.chain[k].n)

FilenameMatches(f) == HasCollPrefix(basename(f.name))

NothingMatches(f, leaf) ==
    ~ BannerMatches(f) /\ ~ IdsMatch(leaf) /\ ~ FilenameMatches(f)

\* the docs added by the step
NewDocs == SubSeq(docs', Len(docs) + 1, Len(docs'))

\* the docs of a leaf for which nothing matches are extracanonical
C19_Step ==
    \A l \in todo \ todo' :
        NothingMatches(xfile, xfile.leaves[l]) =>
            \A i \in DOMAIN NewDocs :
                \* 'extracanonical'
                /\ NewDocs[i].basket = <<"e","x","t","r","a","c","a","n","o","n","i","c","a","l">>
                /\ NewDocs[i].collection = None

C19_Baskets == \A i \in DOMAIN docs : docs[i].basket \in BASKETS

C19_ClassifierCascade == [][C19_Step]_vars /\ []C19_Baskets

\* the same for the leaf visited first only
C19_FirstLeafStep ==
    \A l \in todo \ todo' :
        (todo = DOMAIN xfile.leaves /\ NothingMatches(xfile, xfile.leaves[l]))
        => \A i \in DOMAIN NewDocs :
               \* 'extracanonical'
               /\ NewDocs[i].basket = <<"e","x","t","r","a","c","a","n","o","n","i","c","a","l">>
               /\ NewDocs[i].collection = None

C19_FirstLeaf == [][C19_FirstLeafStep]_vars /\ []C19_Baskets

\* a leaf for which nothing matches, visited after a leaf of DN, is filed
\* as that one was
C19_CarriedOver ==
    [][(/\ xpc = "leaves"
        /\ xfile.nikaya = <<>>
        \* 'cscd/s0101m.mul.xml'
        /\ xfile.name = <<"c","s","c","d","/","s","0","1","0","1","m",".","m","u","l",".","x","m","l">>
        /\ xfile.leaves = <<LEAF_DN, LEAF_ANON>>
        /\ todo = {2} /\ todo' = {})
       => \A i \in DOMAIN NewDocs :
              \* 'sutta'
              /\ NewDocs[i].basket = <<"s","u","t","t","a">>
              \* 'DN'
              /\ NewDocs[i].collection = <<"D","N">>
              /\ Len(NewDocs) = 2]_vars

(***************************************************************************)
(* C21.  Paragraph extraction.  The paragraphs of a leaf are numbered      *)
(* 1..N in document order.  Every paragraph whose cleaned text is not      *)
(* empty gives exactly one doc, whose order is the number of the paragraph *)
(* and whose segment_id is the id of the leaf, ".p." and the paragraph     *)
(* number of the paragraph if it has one, else its order padded with       *)
(* zeros to four digits; a paragraph whose cleaned text is empty gives no  *)
(* doc and keeps its number to itself.  The id of the leaf is its id       *)
(* attribute, else its n attribute, else "div"; the paragraph number is    *)
(* the n attribute, else the paranum text; the cleaned text is that of     *)
(* clean_paragraph_text.                                                   *)
(***************************************************************************)
LeafId(leaf) ==
    IF Truthy(leaf.chain[1].id) THEN leaf.chain[1].id
    ELSE IF Truthy(leaf.chain[1].n) THEN leaf.chain[1].n
    \* 'div'
    ELSE <<"d","i","v">>

\* the zero-padded order, for orders of up to four digits
Padded(i) ==
    <<FormatNat(i \div 1000)[1], FormatNat((i \div 100) % 10)[1],
      FormatNat((i \div 10) % 10)[1], FormatNat(i % 10)[1]>>

ClaimedSegmentId(leaf, i) ==
    \* '.p.'
    LeafId(leaf) \o <<".","p",".">> \o
        (IF Truthy(para_no_of(leaf.paras[i])) THEN para_no_of(leaf.paras[i])
         ELSE Padded(i))

\* the numbers of the paragraphs of the leaf that give a doc
Kept(leaf) == {i \in DOMAIN leaf.paras : clean_text(leaf.paras[i]) # <<>>}

C21_Step ==
    \A l \in todo \ todo' :
        LET leaf == xfile.leaves[l]
        IN  /\ Len(NewDocs) = Cardinality(Kept(leaf))
            /\ \A i \in Kept(leaf) :
                   \E j \in DOMAIN NewDocs :
                       /\ NewDocs[j].order = i
                       /\ NewDocs[j].segment_id = ClaimedSegmentId(leaf, i)
                       /\ NewDocs[j].text = clean_text(leaf.paras[i])
                       /\ NewDocs[j].rend = leaf.paras[i].rend
            /\ \A j, k \in DOMAIN NewDocs :
                   j < k => NewDocs[j].order < NewDocs[k].order

\* the docs of a file are those of its leaves and no others
C21_Count ==
    xpc = "done" =>
        Len(docs) = Cardinality(UNION {{<<l, i>> : i \in Kept(xfile.leaves[l])} :
                                           l \in DOMAIN xfile.leaves})

C21_ParagraphExtraction == [][C21_Step]_vars /\ []C21_Count

\* a blank paragraph before a paragraph without a number, and a blank
\* paragraph before a numbered one
C21_Witness ==
    /\ xpc = "done"
    /\ xfile.leaves = <<LEAF_ABH, LEAF_MN>>
    /\ Len(docs) = 2
    /\ \E j \in DOMAIN docs :
           \* 'div.p.0002'
           docs[j].order = 2 /\ docs[j].segment_id = <<"d","i","v",".","p",".","0","0","0","2">>
    /\ \E j \in DOMAIN docs :
           \* 'mn1_2.p.2'
           docs[j].order = 2 /\ docs[j].segment_id = <<"m","n","1","_","2",".","p",".","2">>

(***************************************************************************)
(* docs_from_file as a function of the parsed file and of the order in     *)
(* which leaf_text_divs yields its leaves.                                 *)
(***************************************************************************)
\* the orders the leaves of a file can be visited in
LeafOrders(f) ==
    {o \in [DOMAIN f.leaves -> DOMAIN f.leaves] :
        \A i, j \in DOMAIN o : o[i] = o[j] => i = j}

\* lines 258-340: the loop over the leaves still to visit
RECURSIVE VisitLeaves(_, _, _, _)
VisitLeaves(f, order, bc, acc) ==
    IF order = <<>> THEN acc
    ELSE LET leaf == f.leaves[Head(order)]
             b == classify(bc, leaf.chain, f.name)
         IN  VisitLeaves(f, Tail(order), b, acc \o leaf_docs(leaf, b, f.name))

docs_from_file(f, order) ==
    IF ~ f.body THEN <<>>
    ELSE VisitLeaves(f, order, infer_banner(f), <<>>)

\* the state machine and the function are the same program
DocsAgree ==
    xpc = "done" => \E o \in LeafOrders(xfile) : docs = docs_from_file(xfile, o)

(***************************************************************************)
(* parallel_index: action_stream turns the docs of the files into index    *)
(* actions, helpers.parallel_bulk cuts the stream into chunks of           *)
(* chunk_size actions and hands each chunk to a free thread, which sends   *)
(* it as one bulk request; the index applies the actions of a request one  *)
(* after the other, the requests of different threads in any interleaving, *)
(* and an action may fail (raise_on_error and raise_on_exception are off,  *)
(* so the failure is only tallied).  An index action with an _id creates   *)
(* the record of that _id or replaces it; without an _id the index makes   *)
(* up a fresh one.  A run of parallel_index may be followed by another on  *)
(* the same files.                                                         *)
(***************************************************************************)
\* a variant: the action carries no _id
doc_id_none(doc) == None

\* line 361
\* '::'
doc_id(doc) == doc.source_file \o <<":",":">> \o doc.segment_id

\* lines 360-362: the actions of the docs of one file
file_actions(ds) ==
    [i \in DOMAIN ds |-> [_op_type |-> "index", _id |-> doc_id(ds[i]),
                          _source |-> ds[i]]]

\* lines 359-362: the streams over the files, one for each way the leaves
\* of the files can come
RECURSIVE action_streams(_)
action_streams(fs) ==
    IF fs = <<>> THEN {<<>>}
    ELSE {file_actions(docs_from_file(Head(fs), o)) \o rest :
             o \in LeafOrders(Head(fs)), rest \in action_streams(Tail(fs))}

\* the id the index gives to its k-th record when the action has none
\* 'auto'
AutoId(k) == <<"a","u","t","o">> \o FormatNat(k)

\* the index applies an action of _op_type index
index_action(st, a) ==
    IF a._id # None /\ \E i \in DOMAIN st : st[i]._id = a._id
    THEN [i \in DOMAIN st |->
             IF st[i]._id = a._id THEN [st[i] EXCEPT !._source = a._source]
             ELSE st[i]]
    ELSE Append(st, [_id |-> IF a._id = None THEN AutoId(Len(st) + 1)
                             ELSE a._id,
                     _source |-> a._source])

\* --threads and --chunk-size, and the number of runs
thread_count == 2
chunk_size == 2
MaxRuns == 2

Threads == 1..thread_count

\* 'cscd/s0102m.mul.xml'
BULK_MN == XmlFile(<<"c","s","c","d","/","s","0","1","0","2","m",".","m","u","l",".","x","m","l">>, TRUE, <<>>, <<LEAF_MN>>)
\* two leaves without an id: the basket of the first depends on the order
\* 'cscd/s0101m.mul.xml'
BULK_ANON == XmlFile(<<"c","s","c","d","/","s","0","1","0","1","m",".","m","u","l",".","x","m","l">>, TRUE, <<>>, <<LEAF_ANON, LEAF_ABH>>)

GlobPool == {<<BULK_MN>>, <<BULK_ANON>>, <<BULK_MN, BULK_ANON>>}

InitBulk ==
    /\ Idle
    /\ IdleDocs
    /\ op = "none" /\ arg = <<>> /\ res = <<>>
    /\ globbed \in GlobPool
    /\ bpc = "ready"
    /\ run = 0
    /\ stream = <<>>
    /\ taken = 0
    /\ inflight = [t \in Threads |-> <<>>]
    /\ store = <<>>
    /\ failed = <<>>

\* lines 375-379: a run starts; the generator is not yet consumed
StartRun ==
    /\ bpc \in {"ready", "ended"}
    /\ run < MaxRuns
    /\ run' = run + 1
    /\ stream' \in action_streams(globbed)
    /\ taken' = 0
    /\ failed' = Append(failed, 0)
    /\ bpc' = "running"
    /\ UNCHANGED <<globbed, inflight, store, gatherVars, callVars, docsVars>>

\* lines 380-388: a free thread gets the next chunk
TakeChunk(t) ==
    /\ bpc = "running"
    /\ inflight[t] = <<>>
    /\ taken < Len(stream)
    /\ LET n == IF taken + chunk_size <= Len(stream) THEN chunk_size
                ELSE Len(stream) - taken
       IN  /\ inflight' = [inflight EXCEPT ![t] = SubSeq(stream, taken + 1, taken + n)]
           /\ taken' = taken + n
    /\ UNCHANGED <<globbed, bpc, run, stream, store, failed,
                   gatherVars, callVars, docsVars>>

\* the index applies the next action of the request of thread t
IndexOne(t) ==
    /\ bpc = "running"
    /\ inflight[t] # <<>>
    /\ store' = index_action(store, Head(inflight[t]))
    /\ inflight' = [inflight EXCEPT ![t] = Tail(@)]
    /\ UNCHANGED <<globbed, bpc, run, stream, taken, failed,
                   gatherVars, callVars, docsVars>>

\* lines 389-392: the next action of the request of thread t fails
FailOne(t) ==
    /\ bpc = "running"
    /\ inflight[t] # <<>>
    /\ inflight' = [inflight EXCEPT ![t] = Tail(@)]
    /\ failed' = [failed EXCEPT ![run] = @ + 1]
    /\ UNCHANGED <<globbed, bpc, run, stream, taken, store,
                   gatherVars, callVars, docsVars>>

\* line 393: every action is answered
EndRun ==
    /\ bpc = "running"
    /\ taken = Len(stream)
    /\ \A t \in Threads : inflight[t] = <<>>
    /\ bpc' = "ended"
    /\ UNCHANGED <<globbed, run, stream, taken, inflight, store, failed,
                   gatherVars, callVars, docsVars>>

NextBulk ==
    \/ StartRun
    \/ \E t \in Threads : TakeChunk(t)
    \/ \E t \in Threads : IndexOne(t)
    \/ \E t \in Threads : FailOne(t)
    \/ EndRun

SpecBulk == InitBulk /\ [][NextBulk]_vars

(***************************************************************************)
(* C22.  Idempotent transport.  Whatever the interleaving of the bulk      *)
(* threads, whatever failed in earlier runs and however often the files    *)
(* are submitted: the index never holds two records of one id, every       *)
(* record it holds is a doc some run emitted under that id, and after a    *)
(* run in which no action failed it holds exactly one record for each id   *)
(* (source_file::segment_id) the run emitted, with the content that run    *)
(* emitted under that id, i.e. what this run alone leaves in an empty      *)
(* index.                                                                  *)
(***************************************************************************)
IdsOf(actions) == {actions[i]._id : i \in DOMAIN actions}

\* the record is the doc of an action of the stream with the same id
EmittedIn(rec, actions) ==
    \E i \in DOMAIN actions :
        actions[i]._id = rec._id /\ actions[i]._source = rec._source

C22_NoDuplicates ==
    \A i, j \in DOMAIN store : store[i]._id = store[j]._id => i = j

\* a step creates or replaces records only by docs of the running stream
C22_OnlyEmitted ==
    \A i \in DOMAIN store' :
        \/ i \in DOMAIN store /\ store'[i] = store[i]
        \/ EmittedIn(store'[i], stream)

C22_AfterCompleteRun ==
    (bpc = "ended" /\ failed[run] = 0) =>
        /\ IdsOf(store) = IdsOf(stream)
        /\ Len(store) = Cardinality(IdsOf(stream))
        /\ \A i \in DOMAIN store : EmittedIn(store[i], stream)

DocstringPacking(a) ==
    CompAt(a, 1) * 100000000 + CompAt(a, 2) * 10000
        + CompAt(a, 3) * 100 + CompAt(a, 4)

C23_SeqPacking ==
    op = "return" =>
        /\ res[1] = DocstringPacking(arg.a)
        /\ res[2] = DocstringPacking(arg.b)

\* what the function computes: a * 10^6 + b * 10^3 + c * 10 + d
C23_SeqAsCoded ==
    op = "return" =>
        res[1] = CompAt(arg.a, 1) * 1000000 + CompAt(arg.a, 2) * 1000
                     + CompAt(arg.a, 3) * 10 + CompAt(arg.a, 4)

(***************************************************************************)
(* C24.  The denormalized triple.  As claimed: after the post-pass, for    *)
(* every doc that has a text and whatever the order of the files, the      *)
(* text, lang and translator of the doc are those of one and the same      *)
(* variant of the doc.                                                     *)
(***************************************************************************)
TripleOfOneVariant(doc) ==
    \E k \in DOMAIN doc.variants :
        /\ doc.variants[k].text = doc.text
        /\ doc.variants[k].lang = doc.lang
        /\ doc.variants[k].translator = doc.translator

C24_ConsistentTriple ==
    pc = "done" =>
        \A id \in DOMAIN segments :
            segments[id].text # None => TripleOfOneVariant(segments[id])

\* the root-layer file first: the doc keeps the lang of the root variant
\* and takes text and translator from the translation
C24_RootFirst ==
    (pc = "done" /\ files = <<RootMn10, TransMn10>>) =>
        \* 'mn10:1.1'
        LET doc == segments[<<"m","n","1","0",":","1",".","1">>]
        \* 'Should be discourse'
        IN  /\ doc.text = <<"S","h","o","u","l","d"," ","b","e"," ","d","i","s","c","o","u","r","s","e">>
            \* 'sujato'
            /\ doc.translator = <<"s","u","j","a","t","o">>
            \* 'pli'
            /\ doc.lang = <<"p","l","i">>

\* the translation-layer file first: the triple is that of the translation
C24_TranslationFirst ==
    (pc = "done" /\ files = <<TransMn10, RootMn10>>) =>
        \* 'mn10:1.1'
        LET doc == segments[<<"m","n","1","0",":","1",".","1">>]
        \* 'Should be discourse'
        IN  /\ doc.text = <<"S","h","o","u","l","d"," ","b","e"," ","d","i","s","c","o","u","r","s","e">>
            \* 'sujato'
            /\ doc.translator = <<"s","u","j","a","t","o">>
            \* 'en'
            /\ doc.lang = <<"e","n">>

(***************************************************************************)
(* C25.  Basket and collection by the key alone.  As claimed: the basket   *)
(* and the collection of a doc are a function of the work id in its own    *)
(* key, the same whatever the name of the file and whatever keys come      *)
(* before it in the file.  The function is the one the code applies when a *)
(* key meets a file of another work: the scheme split off the work id of   *)
(* the key, and the classification of that work id under that scheme.      *)
(***************************************************************************)
ClassOfKey(id) ==
    infer_basket_collection_from_work(
        SegKeyWork(id), split_scheme_and_number(SegKeyWork(id)).scheme)

C25_KeyAlone ==
    \A id \in DOMAIN segments :
        /\ segments[id].basket = ClassOfKey(id).basket
        /\ segments[id].collection = ClassOfKey(id).collection

\* one key, two files, two classifications: in the file named after the
\* work the key is a sutta of MN, in a file whose name holds no work id it
\* has neither basket nor collection
C25_ByFilename ==
    /\ (pc = "done" /\ files = <<RootMn10>>) =>
           \* 'mn10:1.1', 'sutta'
           /\ segments[<<"m","n","1","0",":","1",".","1">>].basket = <<"s","u","t","t","a">>
           \* 'mn10:1.1', 'MN'
           /\ segments[<<"m","n","1","0",":","1",".","1">>].collection = <<"M","N">>
    /\ (pc = "done" /\ files = <<BareTrans>>) =>
           \* 'mn10:1.1'
           /\ segments[<<"m","n","1","0",":","1",".","1">>].basket = None
           \* 'mn10:1.1'
           /\ segments[<<"m","n","1","0",":","1",".","1">>].collection = None

\* a key of the work the file is named after, behind a key of another work,
\* is classified under the scheme of that other work
C25_ByPrecedingKey ==
    (pc = "done" /\ files = <<Preceded>>) =>
        \* 'mn10:1.1', 'sutta'
        /\ segments[<<"m","n","1","0",":","1",".","1">>].basket = <<"s","u","t","t","a">>
        \* 'mn10:1.1', 'DN'
        /\ segments[<<"m","n","1","0",":","1",".","1">>].collection = <<"D","N">>

(***************************************************************************)
(* C26.  Stanza numbers and the number of layers.  As claimed: when a      *)
(* root-layer file is followed by a translation-layer file, every doc the  *)
(* root file produced ends with the gatha_no and gatha_line it has when    *)
(* the root file is processed alone.  The state of gather_segments when    *)
(* the first file is closed is the state in which the run on that file     *)
(* alone enters its post-pass, and the post-pass leaves both fields as     *)
(* they are; so the claim is that no step after the first file changes     *)
(* them.                                                                   *)
(***************************************************************************)
RootThenTranslation ==
    /\ Len(files) = 2
    /\ LayerOf(files[1]) = ROOT
    /\ LayerOf(files[2]) = TRANSLATION

C26_Step ==
    (RootThenTranslation /\ fi = 2) =>
        \A id \in DOMAIN segments :
            /\ segments'[id].gatha_no = segments[id].gatha_no
            /\ segments'[id].gatha_line = segments[id].gatha_line

C26_LayerIndependent == [][C26_Step]_vars

\* the root file of mn10 alone, and followed by a translation
C26_Example ==
    /\ (pc = "done" /\ files = <<RootMn10>>) =>
           \* 'mn10:1.1'
           /\ segments[<<"m","n","1","0",":","1",".","1">>].gatha_no = 1
           \* 'mn10:1.1'
           /\ segments[<<"m","n","1","0",":","1",".","1">>].gatha_line = 1
    /\ (pc = "done" /\ files = <<RootMn10, TransMn10>>) =>
           \* 'mn10:1.1'
           /\ segments[<<"m","n","1","0",":","1",".","1">>].gatha_no = 2
           \* 'mn10:1.1'
           /\ segments[<<"m","n","1","0",":","1",".","1">>].gatha_line = 1
    /\ (pc = "done" /\ files = <<RootThag>>) =>
           \* 'thag1.1:2.3'
           /\ segments[<<"t","h","a","g","1",".","1",":","2",".","3">>].gatha_no = 2
           \* 'thag1.1:2.3'
           /\ segments[<<"t","h","a","g","1",".","1",":","2",".","3">>].gatha_line = 3

(***************************************************************************)
(* C27.  Segment ids within one file.  As claimed: no two docs that        *)
(* docs_from_file emits for a file have the same segment_id, so that       *)
(* source_file::segment_id names one paragraph.                            *)
(***************************************************************************)
C27_UniqueSegmentIds ==
    \A i, j \in DOMAIN docs :
        docs[i].segment_id = docs[j].segment_id => i = j

\* two different leaves without id and n: both are named "div", and their
\* second paragraphs share the id div.p.0002
C27_AnonymousLeaves ==
    (xpc = "done" /\ xfile.leaves = <<LEAF_ANON, LEAF_ABH>>) =>
        /\ Len(docs) = 3
        /\ Cardinality({j \in DOMAIN docs :
                           \* 'div.p.0002'
                           docs[j].segment_id = <<"d","i","v",".","p",".","0","0","0","2">>}) = 2
        /\ \E j, k \in DOMAIN docs :
               /\ docs[j].segment_id = docs[k].segment_id
               /\ docs[j].hierarchy # docs[k].hierarchy

(***************************************************************************)
(* C28.  Independence of the order of the leaves.  As claimed: the basket  *)
(* and the collection of the docs of a leaf are those that the banner of   *)
(* the file, the ids of the leaf and of its ancestors and the filename     *)
(* give, whichever leaves were visited before; and the docs of a file are  *)
(* the same set whatever the order in which leaf_text_divs yields the      *)
(* leaves.                                                                 *)
(***************************************************************************)
\* the classification from the banner, the ids of the leaf and the filename
ClassAlone(f, leaf) == classify(infer_banner(f), leaf.chain, f.name)

C28_Step ==
    \A l \in todo \ todo' :
        \A i \in DOMAIN NewDocs :
            /\ NewDocs[i].basket = ClassAlone(xfile, xfile.leaves[l]).basket
            /\ NewDocs[i].collection = ClassAlone(xfile, xfile.leaves[l]).collection

\* the leaves in document order
DocumentOrder(f) == [i \in DOMAIN f.leaves |-> i]

C28_SameSet ==
    xpc = "done" => Range(docs) = Range(docs_from_file(xfile, DocumentOrder(xfile)))

C28_LeafOrderIndependent == [][C28_Step]_vars /\ []C28_SameSet

\* a leaf of DN and a leaf without ids in a file without banner: visited
\* after the leaf of DN the other leaf is filed under sutta and DN, visited
\* before it under extracanonical and no collection, and then the leaf of
\* DN itself is extracanonical with collection DN
C28_TwoOrders ==
    (/\ xpc = "done"
     /\ xfile.nikaya = <<>>
     \* 'cscd/s0101m.mul.xml'
     /\ xfile.name = <<"c","s","c","d","/","s","0","1","0","1","m",".","m","u","l",".","x","m","l">>
     /\ xfile.leaves = <<LEAF_DN, LEAF_ANON>>)
    => LET fwd == docs_from_file(xfile, <<1, 2>>)
           bwd == docs_from_file(xfile, <<2, 1>>)
       IN  /\ docs \in {fwd, bwd}
           /\ Range(fwd) # Range(bwd)
           /\ \A i \in DOMAIN fwd :
                  \* 'sutta', 'DN'
                  fwd[i].basket = <<"s","u","t","t","a">> /\ fwd[i].collection = <<"D","N">>
           /\ \A i \in DOMAIN bwd :
                  \* 'extracanonical'
                  /\ bwd[i].basket = <<"e","x","t","r","a","c","a","n","o","n","i","c","a","l">>
                  \* 'DN'
                  /\ bwd[i].collection \in {None, <<"D","N">>}
           /\ \E i \in DOMAIN bwd : bwd[i].collection = None
           \* 'DN'
           /\ \E i \in DOMAIN bwd : bwd[i].collection = <<"D","N">>

(***************************************************************************)
(* attach_canonical on two docs of collection MN, for comparing what two   *)
(* leaves receive.                                                         *)
(***************************************************************************)
\* hierarchies of one vagga of MN: the vaggas 1 and 2 of book 1, vagga 1 of
\* book 2, a sixth vagga of book 1, and the vaggas 4 and 5 of book 3, of
\* which the fourth (Vibhangavagga) has twelve suttas
\* 'vagga', 'mn1_1', 'vagga', 'mn1_2'
MnVaggas == {<<HNode(<<"v","a","g","g","a">>, <<"m","n","1","_","1">>, None)>>, <<HNode(<<"v","a","g","g","a">>, <<"m","n","1","_","2">>, None)>>,
             \* 'vagga', 'mn2_1', 'vagga', 'mn1_6'
             <<HNode(<<"v","a","g","g","a">>, <<"m","n","2","_","1">>, None)>>, <<HNode(<<"v","a","g","g","a">>, <<"m","n","1","_","6">>, None)>>,
             \* 'mn3_4', 'mn3_5'
             \* 'vagga', 'mn3_4', 'vagga', 'mn3_5'
             <<HNode(<<"v","a","g","g","a">>, <<"m","n","3","_","4">>, None)>>, <<HNode(<<"v","a","g","g","a">>, <<"m","n","3","_","5">>, None)>>}

\* '1. Sutta', '10.', '11. x'
MnSubheads == {<<"1","."," ","S","u","t","t","a">>, <<"5">>, <<"1","0",".">>, <<"1","1","."," ","x">>}

\* 'MN'
MnDocs == [collection : {<<"M","N">>}, hierarchy : MnVaggas, subhead : MnSubheads]

InitMnPair ==
    /\ Idle
    /\ IdleDocs
    /\ IdleBulk
    /\ op = "call"
    /\ arg \in MnDocs \X MnDocs
    /\ res = <<>>

CallMnPair ==
    /\ op = "call"
    /\ res' = <<attach_canonical(arg[1]), attach_canonical(arg[2])>>
    /\ op' = "return"
    /\ UNCHANGED <<arg, gatherVars, docsVars, bulkVars>>

NextMnPair == CallMnPair

SpecMnPair == InitMnPair /\ [][NextMnPair]_vars

(***************************************************************************)
(* C29.  The canonical numbers of MN.  As claimed: two leaves of MN whose  *)
(* (book, vagga, number in the subhead) differ never get the same          *)
(* canonical_ref, when both get one.                                       *)
(***************************************************************************)
\* the book and vagga that _mn_number reads from the ids, and the number
\* that _int_from_subhead reads from the subhead
MnTriple(doc) ==
    LET bv == MnScan(doc.hierarchy, 1, [book |-> NoneInt, vagga |-> NoneInt])
    IN  <<bv.book, bv.vagga, _int_from_subhead(doc.subhead)>>

C29_MnInjective ==
    op = "return" =>
        ((/\ MnTriple(arg[1]) # MnTriple(arg[2])
          /\ res[1].canonical_ref # None
          /\ res[2].canonical_ref # None)
         => res[1].canonical_ref # res[2].canonical_ref)

\* the vagga is one of the five of a book and the number one of the ten of
\* a vagga
MnInRange(doc) == MnTriple(doc)[2] \in 1..5 /\ MnTriple(doc)[3] \in 1..10

\* within those ranges the numbers are different
C29_InRange ==
    (op = "return" /\ MnInRange(arg[1]) /\ MnInRange(arg[2])) =>
        ((/\ MnTriple(arg[1]) # MnTriple(arg[2])
          /\ res[1].canonical_ref # None
          /\ res[2].canonical_ref # None)
         => res[1].canonical_ref # res[2].canonical_ref)

\* the eleventh of vagga 1 and the first of vagga 2 are both MN 11; the
\* first of a sixth vagga of book 1 and the first of book 2 are both MN 51;
\* the eleventh of vagga 4 of book 3 and the first of its vagga 5 are both
\* MN 141
C29_Collisions ==
    \* 'MN', 'vagga', 'mn1_1', '11. x'
    /\ MnTriple([collection |-> <<"M","N">>, hierarchy |-> <<HNode(<<"v","a","g","g","a">>, <<"m","n","1","_","1">>, None)>>, subhead |-> <<"1","1","."," ","x">>]) = <<1, 1, 11>>
    \* 'MN', 'vagga', 'mn1_2', '1. Sutta'
    /\ MnTriple([collection |-> <<"M","N">>, hierarchy |-> <<HNode(<<"v","a","g","g","a">>, <<"m","n","1","_","2">>, None)>>, subhead |-> <<"1","."," ","S","u","t","t","a">>]) = <<1, 2, 1>>
    \* 'MN', 'vagga', 'mn1_1', '11. x', 'MN 11'
    /\ attach_canonical([collection |-> <<"M","N">>, hierarchy |-> <<HNode(<<"v","a","g","g","a">>, <<"m","n","1","_","1">>, None)>>, subhead |-> <<"1","1","."," ","x">>]).canonical_ref = <<"M","N"," ","1","1">>
    \* 'MN', 'vagga', 'mn1_2', '1. Sutta', 'MN 11'
    /\ attach_canonical([collection |-> <<"M","N">>, hierarchy |-> <<HNode(<<"v","a","g","g","a">>, <<"m","n","1","_","2">>, None)>>, subhead |-> <<"1","."," ","S","u","t","t","a">>]).canonical_ref = <<"M","N"," ","1","1">>
    \* 'MN', 'vagga', 'mn1_6', '1. Sutta', 'MN 51'
    /\ attach_canonical([collection |-> <<"M","N">>, hierarchy |-> <<HNode(<<"v","a","g","g","a">>, <<"m","n","1","_","6">>, None)>>, subhead |-> <<"1","."," ","S","u","t","t","a">>]).canonical_ref = <<"M","N"," ","5","1">>
    \* 'MN', 'vagga', 'mn2_1', '1. Sutta', 'MN 51'
    /\ attach_canonical([collection |-> <<"M","N">>, hierarchy |-> <<HNode(<<"v","a","g","g","a">>, <<"m","n","2","_","1">>, None)>>, subhead |-> <<"1","."," ","S","u","t","t","a">>]).canonical_ref = <<"M","N"," ","5","1">>
    \* 'MN', 'mn3_4', '11. x', 'MN 141'
    \* 'MN', 'vagga', 'mn3_4', '11. x', 'MN 141'
    /\ attach_canonical([collection |-> <<"M","N">>, hierarchy |-> <<HNode(<<"v","a","g","g","a">>, <<"m","n","3","_","4">>, None)>>, subhead |-> <<"1","1","."," ","x">>]).canonical_ref = <<"M","N"," ","1","4","1">>
    \* 'MN', 'mn3_5', '1. Sutta', 'MN 141'
    \* 'MN', 'vagga', 'mn3_5', '1. Sutta', 'MN 141'
    /\ attach_canonical([collection |-> <<"M","N">>, hierarchy |-> <<HNode(<<"v","a","g","g","a">>, <<"m","n","3","_","5">>, None)>>, subhead |-> <<"1","."," ","S","u","t","t","a">>]).canonical_ref = <<"M","N"," ","1","4","1">>

(***************************************************************************)
(* C30.  The frame of one merge step.  When gather_segments processes a    *)
(* segment key of work W, the docs stored under the other keys and the     *)
(* contexts of the other works stay as they are, and no key and no work    *)
(* disappears: only the doc under that key and the context of W may        *)
(* change or come into being.  The identity fields of a doc (segment_id,   *)
(* segment_num, seq, is_title, basket, collection, sutta, sutta_num) are   *)
(* never changed once the doc is there, by a merge or by the post-pass.    *)
(***************************************************************************)
IdentityFields == {"segment_id", "segment_num", "seq", "is_title", "basket",
                   "collection", "sutta", "sutta_num"}

\* the step processes a segment key
IsMergeStep ==
    /\ pc = "keys"
    /\ ki <= Len(CurData)
    /\ SegKeyMatches(CurData[ki].key)
    /\ ki' = ki + 1

C30_FrameStep ==
    IsMergeStep =>
        LET key == CurData[ki].key
            W == SegKeyWork(key)
        IN  /\ DOMAIN segments' = DOMAIN segments \cup {key}
            /\ \A k \in DOMAIN segments : k # key => segments'[k] = segments[k]
            /\ DOMAIN work_context' = DOMAIN work_context \cup {W}
            /\ \A w \in DOMAIN work_context :
                   w # W => work_context'[w] = work_context[w]

C30_IdentityStep ==
    \A k \in DOMAIN segments :
        /\ k \in DOMAIN segments'
        /\ \A f \in IdentityFields : segments'[k][f] = segments[k][f]

C30_MergeFrame == [][C30_FrameStep /\ C30_IdentityStep]_vars

\* mn10:1.1, created under MN by the root file, has been merged from a file
\* that classifies it under DN, beside a doc and a context of another work
C30_Witness ==
    /\ files = <<RootMn10, Preceded>>
    /\ fi = 2 /\ pc = "keys" /\ ki = 3
    \* 'mn10:1.1'
    /\ Len(segments[<<"m","n","1","0",":","1",".","1">>].variants) = 2
    \* 'mn10:1.1', 'MN'
    /\ segments[<<"m","n","1","0",":","1",".","1">>].collection = <<"M","N">>
    \* 'mn10:1.1', 'DN'
    /\ RawSegment(<<"m","n","1","0",":","1",".","1">>, <<"m">>).collection = <<"D","N">>
    \* 'mn10:0.1', 'mn10:1.1', 'dn1:1.1'
    /\ DOMAIN segments = {<<"m","n","1","0",":","0",".","1">>, <<"m","n","1","0",":","1",".","1">>, <<"d","n","1",":","1",".","1">>}
    \* 'mn10', 'dn1'
    /\ DOMAIN work_context = {<<"m","n","1","0">>, <<"d","n","1">>}

====
